---- MODULE Spec2Model ----
(***************************************************************************)
(* Inventory-Manager: the quote ledger kept in localStorage (storage.js),  *)
(* the startup sequence (init of the main module) and the two fetches of   *)
(* apiService.js, its retry helper, the currency functions, the filters,   *)
(* sorts and debounce of filterService.js and product.js, the handlers of  *)
(* the main module with the listeners the renderer leaves on the page, the *)
(* export of the quote, and two pages sharing one localStorage.            *)
(*                                                                         *)
(* Money is kept in hundredths so that the rates 0.92, 0.79, 149.50 and    *)
(* 17.20 are integers.                                                      *)
(***************************************************************************)
EXTENDS Integers, Sequences, FiniteSets, TLC

\* ------------------------------------------------------------------ bounds
MaxId == 2
MaxLen == 2
MaxClock == 1
MaxAttempts == 3
MaxCalls == 3
MaxTime == 7

Ids == 1..MaxId
Currencies == {"USD", "EUR", "GBP", "JPY", "MXN"}

\* ------------------------------------------------------- JavaScript values
\* A JavaScript value: kind is its type, and one field per payload.
Val(k, s, b, t, n) == [kind |-> k, items |-> s, flag |-> b, str |-> t, num |-> n]
Arr(s) == Val("array", s, FALSE, "", 0)
Bool(b) == Val("boolean", <<>>, b, "", 0)
Str(t) == Val("string", <<>>, FALSE, t, 0)
Date(n) == Val("string", <<>>, FALSE, "iso", n)
Other(k) == Val(k, <<>>, FALSE, "", 0)
Null == Other("null")
Undefined == Other("undefined")

\* A JavaScript string as the sequence of its characters, and a field that
\* is missing (undefined).
Text(chars) == [kind |-> "string", chars |-> chars]
Missing == [kind |-> "undefined", chars |-> <<>>]
All == <<"a", "l", "l">>

\* The filters object: its search and category criteria.
Filters(search, category) == [search |-> search, category |-> category]

\* The catalog's products: ids are unique in a catalog, so a price, a title,
\* a description and a category per id.
PriceOf(i) == 10 * i
TitleOf(i) == Text(IF i % 2 = 1 THEN <<"A", "b">> ELSE <<"b">>)
DescriptionOf(i) == Text(IF i = 1 THEN <<"a", " ", "b">> ELSE <<>>)
CategoryOf(i) == Text(IF i % 2 = 1 THEN <<"a">> ELSE <<"A">>)

\* An instance of class Product, as the catalog holds it.
Product(i, p) ==
    [id |-> i, price |-> p, cls |-> "Product", title |-> TitleOf(i),
     description |-> DescriptionOf(i), category |-> CategoryOf(i)]
Products == {Product(i, PriceOf(i)) : i \in Ids}

\* Product.toJSON: the plain serialised form of an entry (the class is lost).
toJSON(e) ==
    [id |-> e.id, price |-> e.price, title |-> e.title,
     description |-> e.description, category |-> e.category]
\* What JSON.parse builds from a serialised entry: a plain object.
fromJSON(t) ==
    [id |-> t.id, price |-> t.price, cls |-> "Object", title |-> t.title,
     description |-> t.description, category |-> t.category]

\* ---------------------------------------------------- localStorage strings
\* The string stored under a key: absent (getItem returns null), text that
\* is no JSON, or the JSON text of a value.
Absent == [kind |-> "absent", json |-> Other("none")]
Garbage == [kind |-> "garbage", json |-> Other("none")]

JSONstringify(v) ==
    [kind |-> "json",
     json |-> [v EXCEPT !.items = [i \in DOMAIN v.items |-> toJSON(v.items[i])]]]

JSONparse(s) ==
    [s.json EXCEPT !.items = [i \in DOMAIN s.json.items |-> fromJSON(s.json.items[i])]]

\* Every sequence over S of length at most n.
SeqsUpTo(S, n) == UNION {[1..k -> S] : k \in 0..n}

STORAGE_KEYS == {"currency", "quoteList", "lastUpdate"}

\* ls        localStorage: key -> stored string
\* now       the clock new Date() reads
\* lastCall  the latest call of the storage module and its outcome
\* pc        where init stands: idle (page not loaded), awaiting (in Promise.all),
\*           ready, error
\* state     the application state object of the main module
\* prodFetch, rateFetch   the promises of fetchProducts and fetchExchangeRates
\* ui        what the page shows, whether the event listeners are installed,
\*           and the click listeners its rendered controls carry
\* pure      the latest application of a pure function: its inputs and result
\* timer     the debounced search handler: its pending timeout and its history
\* retry     a run of retryAPICall
\* peer      the state of a second page open on the same localStorage
VARIABLES ls, now, lastCall, pc, state, prodFetch, rateFetch, ui, pure, timer, retry,
          peer

vars == <<ls, now, lastCall, pc, state, prodFetch, rateFetch, ui, pure, timer, retry,
          peer>>
app == <<pc, state, prodFetch, rateFetch, ui>>
aux == <<pure, timer, retry, peer>>

\* Nothing applied, no debounced call made, no retryAPICall running, no
\* second page open.
NoPure == [op |-> "none"]
NoTimer == [clock |-> 0, timeout |-> 0, pending |-> {}, calls |-> 0, log |-> <<>>]
NoRetry == [pc |-> "none"]
NoPeer == [pc |-> "none"]

\* ------------------------------------------------------------- storage.js
\* Mutant: the catch clause of saveToStorage returns true.
saveToStorage_catchReturnsTrue(store, key, value, fails) ==
    IF fails
    THEN [store |-> store, ok |-> TRUE]
    ELSE [store |-> [store EXCEPT ![key] = JSONstringify(value)], ok |-> TRUE]

\* saveToStorage: fails says that localStorage.setItem throws.
saveToStorage(store, key, value, fails) ==
    IF fails
    THEN [store |-> store, ok |-> FALSE]
    ELSE [store |-> [store EXCEPT ![key] = JSONstringify(value)], ok |-> TRUE]

loadFromStorage(store, key, defaultValue) ==
    IF store[key].kind = "absent" THEN defaultValue
    ELSE IF store[key].kind = "garbage" THEN defaultValue
    ELSE JSONparse(store[key])


saveCurrency(store, currency, fails) ==
    saveToStorage(store, "currency", Str(currency), fails)

loadCurrency(store) == loadFromStorage(store, "currency", Str("USD"))

\* The outcome of saveQuoteList: the store, the flag it returns, and the keys
\* whose setItem was called (attempts) and went through (wrote).
\* f1, f2: setItem throws on the list, on the timestamp.
saveQuoteList(store, quoteList, time, f1, f2) ==
    LET first == saveToStorage(store, "quoteList", Arr(quoteList), f1)
        second == saveToStorage(first.store, "lastUpdate", Date(time), f2)
    IN IF first.ok
       THEN [store |-> second.store, ok |-> first.ok,
             attempts |-> {"quoteList", "lastUpdate"},
             wrote |-> {"quoteList"} \cup (IF second.ok THEN {"lastUpdate"} ELSE {})]
       ELSE [store |-> first.store, ok |-> first.ok,
             attempts |-> {"quoteList"}, wrote |-> {}]

loadQuoteList(store) == loadFromStorage(store, "quoteList", Arr(<<>>))

getLastUpdate(store) == loadFromStorage(store, "lastUpdate", Null)

\* Array.prototype.some / filter exist on arrays only: on null, a number or
\* an object the call is a TypeError.
HasArrayMethods(v) == v.kind = "array"

\* Mutant: some(item => item === product), which no parsed copy satisfies.
SomeHasId_identity(items, id) ==
    \E i \in DOMAIN items : items[i].cls = "Product" /\ items[i].id = id

\* quoteList.some(item => item.id === product.id)
SomeHasId(items, id) == \E i \in DOMAIN items : items[i].id = id

\* Mutant: the first matching entry alone is removed (findIndex and splice).
FilterOutId_first(items, id) ==
    IF \E i \in DOMAIN items : items[i].id = id
    THEN LET k == CHOOSE i \in DOMAIN items :
                      /\ items[i].id = id
                      /\ \A j \in 1..(i - 1) : items[j].id # id
         IN SubSeq(items, 1, k - 1) \o SubSeq(items, k + 1, Len(items))
    ELSE items

\* quoteList.filter(item => item.id !== productId)
FilterOutId(items, id) == SelectSeq(items, LAMBDA item : item.id # id)

\* The outcome of a call of the storage module: the store after it, the value
\* returned, whether it threw, and what saveQuoteList did when it was called.
Outcome(store, ret, threw, saveCalled, saveOk, attempts, wrote) ==
    [store |-> store, ret |-> ret, threw |-> threw, saveCalled |-> saveCalled,
     saveOk |-> saveOk, attempts |-> attempts, wrote |-> wrote]

Throws(store) == Outcome(store, Undefined, TRUE, FALSE, FALSE, {}, {})
Returns(store, ret) == Outcome(store, ret, FALSE, FALSE, FALSE, {}, {})

\* Mutant: saveQuoteList is called whether or not the product was pushed.
addToQuote_alwaysSaves(store, product, time, f1, f2) ==
    LET quoteList == loadQuoteList(store) IN
    IF ~HasArrayMethods(quoteList) THEN Throws(store)
    ELSE LET pushed == IF ~SomeHasId(quoteList.items, product.id)
                       THEN Append(quoteList.items, product)
                       ELSE quoteList.items
             saved == saveQuoteList(store, pushed, time, f1, f2)
         IN Outcome(saved.store, Arr(pushed), FALSE, TRUE, saved.ok,
                    saved.attempts, saved.wrote)

\* Mutant: the product is put at the front of the list (unshift for push).
addToQuote_unshift(store, product, time, f1, f2) ==
    LET quoteList == loadQuoteList(store) IN
    IF ~HasArrayMethods(quoteList) THEN Throws(store)
    ELSE IF ~SomeHasId(quoteList.items, product.id)
         THEN LET pushed == <<product>> \o quoteList.items
                  saved == saveQuoteList(store, pushed, time, f1, f2)
              IN Outcome(saved.store, Arr(pushed), FALSE, TRUE, saved.ok,
                         saved.attempts, saved.wrote)
         ELSE Returns(store, quoteList)

addToQuote(store, product, time, f1, f2) ==
    LET quoteList == loadQuoteList(store) IN
    IF ~HasArrayMethods(quoteList) THEN Throws(store)
    ELSE IF ~SomeHasId(quoteList.items, product.id)
         THEN LET pushed == Append(quoteList.items, product)
                  saved == saveQuoteList(store, pushed, time, f1, f2)
              IN Outcome(saved.store, Arr(pushed), FALSE, TRUE, saved.ok,
                         saved.attempts, saved.wrote)
         ELSE Returns(store, quoteList)

removeFromQuote(store, productId, time, f1, f2) ==
    LET quoteList == loadQuoteList(store) IN
    IF ~HasArrayMethods(quoteList) THEN Throws(store)
    ELSE LET updatedList == FilterOutId(quoteList.items, productId)
             saved == saveQuoteList(store, updatedList, time, f1, f2)
         IN Outcome(saved.store, Arr(updatedList), FALSE, TRUE, saved.ok,
                    saved.attempts, saved.wrote)

clearQuote(store, time, f1, f2) ==
    LET saved == saveQuoteList(store, <<>>, time, f1, f2)
    IN Outcome(saved.store, Bool(saved.ok), FALSE, TRUE, saved.ok,
               saved.attempts, saved.wrote)

isInQuote(store, productId) ==
    LET quoteList == loadQuoteList(store) IN
    IF ~HasArrayMethods(quoteList) THEN Throws(store)
    ELSE Returns(store, Bool(SomeHasId(quoteList.items, productId)))

\* quoteList.length: a TypeError on null, undefined on a number or an object.
getQuoteCount(store) ==
    LET quoteList == loadQuoteList(store) IN
    IF quoteList.kind = "null" THEN Throws(store)
    ELSE IF quoteList.kind = "array"
         THEN Returns(store, Val("number", <<>>, FALSE, "", Len(quoteList.items)))
         ELSE Returns(store, Undefined)


\* ----------------------------------------------------------- apiService.js
\* A rate table: currency code -> rate in hundredths. kind is the JavaScript
\* type of the value, so that a `rates` field that is no table can be told.
Rates(k, t) == [kind |-> k, table |-> t]
EmptyTable == [c \in {} |-> 0]

FallbackTable ==
    [c \in Currencies |->
        CASE c = "USD" -> 100
          [] c = "EUR" -> 92
          [] c = "GBP" -> 79
          [] c = "JPY" -> 14950
          [] c = "MXN" -> 1720]

getFallbackRates == Rates("object", FallbackTable)

\* A table as the live rate source sends it.
LiveTable == [c \in {"USD", "EUR", "JPY"} |->
                 CASE c = "USD" -> 100 [] c = "EUR" -> 50 [] c = "JPY" -> 15000]

\* An HTTP exchange: net says whether fetch() resolved, ok is response.ok,
\* body is the text response.json() parses.
Response(net, ok, body) == [net |-> net, ok |-> ok, body |-> body]

\* The bodies the catalog source may send: no JSON, JSON that is no array,
\* or an array of product records with unique ids.
UniqueIds(items) ==
    \A i, j \in DOMAIN items : items[i].id = items[j].id => i = j

CatalogBodies ==
    {Garbage, JSONstringify(Null), JSONstringify(Other("object"))}
    \cup {JSONstringify(Arr(s)) : s \in {t \in SeqsUpTo(Products, MaxLen) : UniqueIds(t)}}

ProductResponses ==
    {Response("error", FALSE, Garbage)}
    \cup {Response("ok", ok, b) : ok \in BOOLEAN, b \in CatalogBodies}

\* The bodies the rate source may send: no JSON, null, or an object whose
\* `rates` field is missing, null, a string, an empty object or a table.
RateBody(k, r) == [kind |-> k, rates |-> r]
RateBodies ==
    {RateBody("garbage", Rates("undefined", EmptyTable)),
     RateBody("null", Rates("undefined", EmptyTable)),
     RateBody("object", Rates("undefined", EmptyTable)),
     RateBody("object", Rates("null", EmptyTable)),
     RateBody("object", Rates("string", EmptyTable)),
     RateBody("object", Rates("object", EmptyTable)),
     RateBody("object", Rates("object", LiveTable))}

RateResponses ==
    {Response("error", FALSE, RateBody("garbage", Rates("undefined", EmptyTable)))}
    \cup {Response("ok", ok, b) : ok \in BOOLEAN, b \in RateBodies}

\* A promise: pending, fulfilled with a value, or rejected. `from` keeps the
\* exchange that settled it.
Promise(status, value, resp) == [status |-> status, value |-> value, from |-> resp]
NoResponse == Response("none", FALSE, Garbage)
NoRateResponse == Response("none", FALSE, RateBody("garbage", Rates("undefined", EmptyTable)))
Fulfilled(v, resp) == Promise("fulfilled", v, resp)

fetchProducts(resp) ==
    IF resp.net = "error" THEN Promise("rejected", Undefined, resp)
    ELSE IF ~resp.ok THEN Promise("rejected", Undefined, resp)
    ELSE IF resp.body.kind = "garbage" THEN Promise("rejected", Undefined, resp)
    ELSE Fulfilled(JSONparse(resp.body), resp)

\* !data.rates
Falsy(r) == r.kind \in {"undefined", "null"}

fetchExchangeRates(resp) ==
    IF resp.net = "error" THEN Fulfilled(getFallbackRates, resp)
    ELSE IF ~resp.ok THEN Fulfilled(getFallbackRates, resp)
    ELSE IF resp.body.kind = "garbage" THEN Fulfilled(getFallbackRates, resp)
    ELSE IF resp.body.kind = "null" THEN Fulfilled(getFallbackRates, resp)
    ELSE IF Falsy(resp.body.rates) THEN Fulfilled(getFallbackRates, resp)
    ELSE Fulfilled(resp.body.rates, resp)

\* validateAPIData(data, 'rates')
validateRates(data) ==
    /\ ~Falsy(data)
    /\ data.kind = "object"
    /\ DOMAIN data.table # {}

\* ------------------------------------------------------------ the ledger
\* The record of the latest call of the storage module: its arguments, the
\* store it found (pre) and its outcome.
Call(op, id, pre, out) ==
    [op |-> op, id |-> id, pre |-> pre,
     ret |-> out.ret, threw |-> out.threw, saveCalled |-> out.saveCalled,
     saveOk |-> out.saveOk, attempts |-> out.attempts, wrote |-> out.wrote]

NoCall == Call("none", 0, [k \in STORAGE_KEYS |-> Absent], Returns(<<>>, Undefined))

\* What may be found under the quote-list key when the program starts: nothing,
\* text that is no JSON, JSON that is no array, or an array of entries.
StoredQuoteLists ==
    {Absent, Garbage}
    \cup {JSONstringify(Other(k)) : k \in {"null", "number", "object"}}
    \cup {JSONstringify(Arr(s)) : s \in SeqsUpTo(Products, MaxLen)}

StoredCurrencies == {Absent, Garbage} \cup {JSONstringify(Str(c)) : c \in Currencies}

StoredLastUpdates == {Absent, JSONstringify(Date(0))}

Store(q, c, u) ==
    [k \in STORAGE_KEYS |->
        CASE k = "quoteList" -> q
          [] k = "currency" -> c
          [] OTHER -> u]

\* The application state as the main module declares it.
InitialState ==
    [allProducts |-> <<>>, filteredProducts |-> <<>>,
     exchangeRates |-> Rates("object", EmptyTable),
     currentCurrency |-> Str("USD"), quoteList |-> Arr(<<>>),
     filters |-> Filters(Text(<<>>), Text(All))]

\* allBtn, categoryBtn, removeBtn: the click listeners on the "All Products"
\* button, on each category button, on each remove button of the quote list.
Ui(loading, grid, listeners) ==
    [loading |-> loading, grid |-> grid, listeners |-> listeners,
     allBtn |-> 0, categoryBtn |-> 0, removeBtn |-> 0]

InitialUi == Ui(FALSE, "initial", FALSE)

PageNotLoaded ==
    /\ pc = "idle"
    /\ state = InitialState
    /\ prodFetch = Promise("none", Undefined, NoResponse)
    /\ rateFetch = Promise("none", Rates("undefined", EmptyTable), NoRateResponse)
    /\ ui = InitialUi

InitWith(quoteLists, currencies, lastUpdates) ==
    /\ ls \in {Store(q, c, u) : q \in quoteLists, c \in currencies, u \in lastUpdates}
    /\ now = 0
    /\ lastCall = NoCall
    /\ PageNotLoaded
    /\ pure = NoPure
    /\ timer = NoTimer
    /\ retry = NoRetry
    /\ peer = NoPeer

\* Time passes between two calls.
Tick ==
    /\ now < MaxClock
    /\ now' = now + 1
    /\ UNCHANGED <<ls, lastCall, app, aux>>

\* The setItem calls of one saveQuoteList that throw: none, the one of the
\* list (the timestamp is then never written), or the one of the timestamp.
Failures == {<<FALSE, FALSE>>, <<TRUE, FALSE>>, <<FALSE, TRUE>>}

\* Until init has installed the listeners the page itself calls nothing of
\* the ledger: the calls are those made while no page is between its load
\* and the end of init.
AddToQuote ==
    \E product \in Products, f \in Failures :
        LET out == addToQuote(ls, product, now, f[1], f[2]) IN
        /\ pc = "idle"
        /\ ls' = out.store
        /\ lastCall' = Call("addToQuote", product.id, ls, out)
        /\ UNCHANGED <<now, app, aux>>

RemoveFromQuote ==
    \E productId \in Ids, f \in Failures :
        LET out == removeFromQuote(ls, productId, now, f[1], f[2]) IN
        /\ pc = "idle"
        /\ ls' = out.store
        /\ lastCall' = Call("removeFromQuote", productId, ls, out)
        /\ UNCHANGED <<now, app, aux>>

ClearQuote ==
    \E f \in Failures :
        LET out == clearQuote(ls, now, f[1], f[2]) IN
        /\ pc = "idle"
        /\ ls' = out.store
        /\ lastCall' = Call("clearQuote", 0, ls, out)
        /\ UNCHANGED <<now, app, aux>>

SaveCurrency ==
    \E currency \in Currencies, fails \in BOOLEAN :
        LET saved == saveCurrency(ls, currency, fails)
            out == Outcome(saved.store, Bool(saved.ok), FALSE, FALSE, FALSE,
                           {"currency"}, IF saved.ok THEN {"currency"} ELSE {})
        IN
        /\ pc = "idle"
        /\ ls' = saved.store
        /\ lastCall' = Call("saveCurrency", 0, ls, out)
        /\ UNCHANGED <<now, app, aux>>

IsInQuote ==
    \E productId \in Ids :
        /\ pc = "idle"
        /\ lastCall' = Call("isInQuote", productId, ls, isInQuote(ls, productId))
        /\ UNCHANGED <<ls, now, app, aux>>

LoadQuoteList ==
    /\ pc = "idle"
    /\ lastCall' = Call("loadQuoteList", 0, ls, Returns(ls, loadQuoteList(ls)))
    /\ UNCHANGED <<ls, now, app, aux>>

GetQuoteCount ==
    /\ pc = "idle"
    /\ lastCall' = Call("getQuoteCount", 0, ls, getQuoteCount(ls))
    /\ UNCHANGED <<ls, now, app, aux>>

\* ---------------------------------------------------------------- startup
\* init up to its await: the saved preferences are loaded and both fetches
\* are started.
Startup ==
    /\ pc = "idle"
    /\ pc' = "awaiting"
    /\ state' = [state EXCEPT !.currentCurrency = loadCurrency(ls),
                              !.quoteList = loadQuoteList(ls)]
    /\ ui' = [ui EXCEPT !.loading = TRUE]
    /\ prodFetch' = Promise("pending", Undefined, NoResponse)
    /\ rateFetch' = Promise("pending", Rates("undefined", EmptyTable), NoRateResponse)
    /\ UNCHANGED <<ls, now, lastCall, aux>>

\* The page is closed or reloaded: its memory is gone, localStorage stays.
Reload ==
    /\ pc # "idle"
    /\ pc' = "idle"
    /\ state' = InitialState
    /\ prodFetch' = Promise("none", Undefined, NoResponse)
    /\ rateFetch' = Promise("none", Rates("undefined", EmptyTable), NoRateResponse)
    /\ ui' = InitialUi
    /\ UNCHANGED <<ls, now, lastCall, aux>>

ProductsSettle ==
    \E resp \in ProductResponses :
        /\ prodFetch.status = "pending"
        /\ prodFetch' = fetchProducts(resp)
        /\ UNCHANGED <<ls, now, lastCall, pc, state, rateFetch, ui, aux>>

RatesSettle ==
    \E resp \in RateResponses :
        /\ rateFetch.status = "pending"
        /\ rateFetch' = fetchExchangeRates(resp)
        /\ UNCHANGED <<ls, now, lastCall, pc, state, prodFetch, ui, aux>>

\* Mutant: init goes on as soon as the catalog is there.
AllFulfilled_catalogAlone(p, r) == p.status = "fulfilled"

\* Promise.all([p, r]) is fulfilled once both are, and rejected as soon as
\* one is.
AllFulfilled(p, r) == p.status = "fulfilled" /\ r.status = "fulfilled"
AnyRejected(p, r) == p.status = "rejected" \/ r.status = "rejected"

\* productsData.map(p => new Product(p))
NewProducts(data) == [i \in DOMAIN data.items |-> Product(data.items[i].id, data.items[i].price)]

\* renderUI throws when a card asks isInQuote of a stored value that is no
\* array, or when renderQuoteList is given a value that is no array.
renderUIThrows(st, store) ==
    \/ st.allProducts # <<>> /\ \E id \in Ids : isInQuote(store, id).threw
    \/ st.quoteList.kind # "array"

\* The catch clause of init: hideLoading and showError.
ErrorUi == Ui(FALSE, "error", FALSE)

\* renderProducts: the grid shows the cards, or the no-results message.
Grid(products) == IF products = <<>> THEN "noResults" ELSE "products"

\* renderCategoryFilters: the "All Products" button is rebuilt from markup,
\* without a listener; each category button is created with one.
renderCategoryFilters(u) == [u EXCEPT !.allBtn = 0, !.categoryBtn = 1]

\* renderQuoteList: createQuoteItem adds the listener to the button of a
\* detached element and returns the element's outerHTML, so the buttons
\* built from that markup carry none.
renderQuoteList(u) == [u EXCEPT !.removeBtn = 0]

renderUI(u, st) ==
    renderQuoteList(renderCategoryFilters([u EXCEPT !.grid = Grid(st.filteredProducts)]))

\* setupEventListeners: every .category-btn of the page gets one more
\* listener.
setupEventListeners(u) ==
    [u EXCEPT !.listeners = TRUE, !.allBtn = @ + 1, !.categoryBtn = @ + 1]

\* init after its await, both promises fulfilled.
InitResolved ==
    /\ pc = "awaiting"
    /\ AllFulfilled(prodFetch, rateFetch)
    /\ IF prodFetch.value.kind # "array"
       THEN /\ pc' = "error"
            /\ ui' = ErrorUi
            /\ UNCHANGED state
       ELSE LET products == NewProducts(prodFetch.value)
                st == [state EXCEPT !.allProducts = products,
                                    !.filteredProducts = products,
                                    !.exchangeRates = rateFetch.value]
            IN /\ state' = st
               /\ IF renderUIThrows(st, ls)
                  THEN pc' = "error" /\ ui' = ErrorUi
                  ELSE /\ pc' = "ready"
                       /\ ui' = [setupEventListeners(renderUI(ui, st))
                                    EXCEPT !.loading = FALSE]
    /\ UNCHANGED <<ls, now, lastCall, prodFetch, rateFetch, aux>>

\* init after its await, Promise.all rejected.
InitRejected ==
    /\ pc = "awaiting"
    /\ AnyRejected(prodFetch, rateFetch)
    /\ pc' = "error"
    /\ ui' = ErrorUi
    /\ UNCHANGED <<ls, now, lastCall, state, prodFetch, rateFetch, aux>>

\* --------------------------------------------------------- specifications
\* The quote ledger: the calls of the storage module on the quote list, and
\* the startups that read what they left.
Init == InitWith(StoredQuoteLists, {Absent}, StoredLastUpdates)

Next ==
    \/ Tick
    \/ AddToQuote
    \/ RemoveFromQuote
    \/ ClearQuote
    \/ LoadQuoteList
    \/ IsInQuote
    \/ GetQuoteCount
    \/ Startup
    \/ Reload

Spec == Init /\ [][Next]_vars

\* The whole storage module, the currency preference included.
InitStorage == InitWith(StoredQuoteLists, StoredCurrencies, StoredLastUpdates)

NextStorage ==
    \/ Tick
    \/ AddToQuote
    \/ RemoveFromQuote
    \/ ClearQuote
    \/ SaveCurrency
    \/ LoadQuoteList
    \/ IsInQuote
    \/ GetQuoteCount

SpecStorage == InitStorage /\ [][NextStorage]_vars

\* The startup: init and the two fetches, over whatever localStorage holds.
InitStartup == InitWith(StoredQuoteLists, StoredCurrencies, {Absent})

NextStartup ==
    \/ Startup
    \/ ProductsSettle
    \/ RatesSettle
    \/ InitResolved
    \/ InitRejected
    \/ Reload

SpecStartup == InitStartup /\ [][NextStartup]_vars

\* ---------------------------------------------------------- currencyLogic
\* Numbers that are amounts of money, and NaN (typeof NaN is 'number').
Num(n) == Val("number", <<>>, FALSE, "", n)
NaN == Other("NaN")

\* !v for the values an amount or a rate may be.
Not(v) ==
    \/ v.kind \in {"undefined", "null", "NaN"}
    \/ v.kind = "number" /\ v.num = 0
    \/ v.kind = "string" /\ v.str = ""

\* What a call hands back: a value, or the TypeError of reading a property
\* of null or undefined.
Value(v) == [threw |-> FALSE, ret |-> v]
TypeError == [threw |-> TRUE, ret |-> Undefined]

\* exchangeRates[targetCurrency]
RateOf(exchangeRates, targetCurrency) ==
    IF exchangeRates.kind = "object" /\ targetCurrency \in DOMAIN exchangeRates.table
    THEN Num(exchangeRates.table[targetCurrency])
    ELSE Undefined

\* usdPrice * rate, both in hundredths.
Times(usdPrice, rate) == Num((usdPrice.num * rate.num) \div 100)

\* Mutant: no USD branch, the rate of USD is read from the table.
convertPrice_usdFromTable(usdPrice, targetCurrency, exchangeRates) ==
    IF Not(usdPrice) \/ usdPrice.kind # "number" THEN Value(Num(0))
    ELSE IF exchangeRates.kind \in {"null", "undefined"} THEN TypeError
    ELSE IF Not(RateOf(exchangeRates, targetCurrency)) THEN Value(usdPrice)
    ELSE Value(Times(usdPrice, RateOf(exchangeRates, targetCurrency)))

\* Mutant: a missing rate gives 0.
convertPrice_missingIsZero(usdPrice, targetCurrency, exchangeRates) ==
    IF Not(usdPrice) \/ usdPrice.kind # "number" THEN Value(Num(0))
    ELSE IF targetCurrency = "USD" THEN Value(usdPrice)
    ELSE IF exchangeRates.kind \in {"null", "undefined"} THEN TypeError
    ELSE IF Not(RateOf(exchangeRates, targetCurrency)) THEN Value(Num(0))
    ELSE Value(Times(usdPrice, RateOf(exchangeRates, targetCurrency)))

convertPrice(usdPrice, targetCurrency, exchangeRates) ==
    IF Not(usdPrice) \/ usdPrice.kind # "number" THEN Value(Num(0))
    ELSE IF targetCurrency = "USD" THEN Value(usdPrice)
    ELSE IF exchangeRates.kind \in {"null", "undefined"} THEN TypeError
    ELSE IF Not(RateOf(exchangeRates, targetCurrency)) THEN Value(usdPrice)
    ELSE Value(Times(usdPrice, RateOf(exchangeRates, targetCurrency)))

\* item.price || 0
PriceOrZero(item) == IF Not(item.price) THEN Num(0) ELSE item.price

\* items.reduce((total, item) => total + convertPrice(...), 0): the
\* running total after the first n items, or the error one of them threw.
RECURSIVE Reduce(_, _, _, _)
Reduce(items, n, currency, exchangeRates) ==
    IF n = 0 THEN Value(Num(0))
    ELSE LET total == Reduce(items, n - 1, currency, exchangeRates)
             convertedPrice == convertPrice(PriceOrZero(items[n]), currency, exchangeRates)
         IN  IF total.threw THEN total
             ELSE IF convertedPrice.threw THEN convertedPrice
             ELSE Value(Num(total.ret.num + convertedPrice.ret.num))

RECURSIVE RawTotal(_, _)
RawTotal(items, n) ==
    IF n = 0 THEN 0 ELSE RawTotal(items, n - 1) + PriceOrZero(items[n]).num

\* Mutant: the prices are added up unconverted.
calculateTotal_skipsConversion(items, currency, exchangeRates) ==
    IF items.kind # "array" \/ Len(items.items) = 0 THEN Value(Num(0))
    ELSE Value(Num(RawTotal(items.items, Len(items.items))))

calculateTotal(items, currency, exchangeRates) ==
    IF items.kind # "array" \/ Len(items.items) = 0 THEN Value(Num(0))
    ELSE Reduce(items.items, Len(items.items), currency, exchangeRates)

\* The amounts a price may be: numbers (in hundredths), NaN, a string, nothing.
Amounts == {Num(n) : n \in {-100, 0, 100, 200}} \cup {NaN, Str("10"), Undefined}
\* The target currencies and the tables: every table over some of USD and
\* EUR, with a zero rate among the rates, and a table that is null.
TargetCurrencies == {"USD", "EUR", "GBP"}
RateValues == {0, 50, 92}
RateTables ==
    {Rates("object", t) : t \in UNION {[S -> RateValues] : S \in SUBSET {"USD", "EUR"}}}
    \cup {Rates("null", EmptyTable)}
PricedItems == {[price |-> x] : x \in Amounts}
ItemLists == {Arr(s) : s \in SeqsUpTo(PricedItems, MaxLen)} \cup {Null}

\* Every variable the pure functions leave alone, at rest.
Quiet ==
    /\ ls = Store(Absent, Absent, Absent)
    /\ now = 0
    /\ lastCall = NoCall
    /\ PageNotLoaded
    /\ timer = NoTimer
    /\ retry = NoRetry
    /\ peer = NoPeer

Input(c, R) == [op |-> "input", c |-> c, R |-> R]

ConvertPrice ==
    /\ pure.op = "input"
    /\ \E x \in Amounts :
        pure' = [op |-> "convertPrice", c |-> pure.c, R |-> pure.R, x |-> x,
                 out |-> convertPrice(x, pure.c, pure.R)]
    /\ UNCHANGED <<ls, now, lastCall, app, timer, retry, peer>>

CalculateTotal ==
    /\ pure.op = "input"
    /\ \E items \in ItemLists :
        pure' = [op |-> "calculateTotal", c |-> pure.c, R |-> pure.R, items |-> items,
                 out |-> calculateTotal(items, pure.c, pure.R)]
    /\ UNCHANGED <<ls, now, lastCall, app, timer, retry, peer>>

InitCurrency ==
    /\ pure \in {Input(c, R) : c \in TargetCurrencies, R \in RateTables}
    /\ Quiet

NextCurrency ==
    \/ ConvertPrice
    \/ CalculateTotal

SpecCurrency == InitCurrency /\ [][NextCurrency]_vars

\* ------------------------------------------------------------ retryAPICall
\* retryAPICall(apiFn, maxRetries = 3)
DefaultMaxRetries == 3
\* The values the caller passes for maxRetries: nothing, or a count.
RetryArguments == {Undefined} \cup {Num(n) : n \in 0..MaxAttempts}
\* What apiFn's promise may settle with.
ApiResults == {Str("r1"), Str("r2")}
ApiErrors == {Str("e1"), Str("e2"), Str("e3")}

\* A run of retryAPICall: where it stands (awaiting apiFn's promise,
\* sleeping in the backoff timeout, returned, threw), the loop counter i,
\* the invocations of apiFn so far, the errors caught, the timeouts set (in
\* milliseconds) and what the run handed back.
Run(arg) ==
    [pc |-> "entered", arg |-> arg,
     maxRetries |-> IF arg.kind = "undefined" THEN DefaultMaxRetries ELSE arg.num,
     i |-> 0, invocations |-> 0, errors |-> <<>>, waits |-> <<>>,
     out |-> Value(Undefined)]

\* let lastError, assigned in the catch block.
lastError(r) == IF r.errors = <<>> THEN Undefined ELSE r.errors[Len(r.errors)]

\* Math.pow(2, i) * 1000
Backoff(i) == (2 ^ i) * 1000

\* Mutant: the loop runs while i <= maxRetries.
Attempt_inclusive(r) ==
    IF r.i <= r.maxRetries
    THEN [r EXCEPT !.pc = "awaiting", !.invocations = @ + 1]
    ELSE [r EXCEPT !.pc = "threw", !.out = [threw |-> TRUE, ret |-> lastError(r)]]

\* The head of the for loop: the next invocation of apiFn, or the throw
\* after the loop.
Attempt(r) ==
    IF r.i < r.maxRetries
    THEN [r EXCEPT !.pc = "awaiting", !.invocations = @ + 1]
    ELSE [r EXCEPT !.pc = "threw", !.out = [threw |-> TRUE, ret |-> lastError(r)]]

\* The call: the function runs up to its first await.
RetryAPICall ==
    /\ retry.pc = "none"
    /\ \E arg \in RetryArguments : retry' = Attempt(Run(arg))
    /\ UNCHANGED <<ls, now, lastCall, app, pure, timer, peer>>

ApiResolves ==
    /\ retry.pc = "awaiting"
    /\ \E v \in ApiResults : retry' = [retry EXCEPT !.pc = "returned", !.out = Value(v)]
    /\ UNCHANGED <<ls, now, lastCall, app, pure, timer, peer>>

\* The catch block: the error is kept, and a timeout is set unless this was
\* the last round.
ApiRejects ==
    /\ retry.pc = "awaiting"
    /\ \E error \in ApiErrors :
        LET r == [retry EXCEPT !.errors = Append(@, error)]
        IN  IF r.i < r.maxRetries - 1
            THEN retry' = [r EXCEPT !.pc = "sleeping", !.waits = Append(@, Backoff(r.i))]
            ELSE retry' = Attempt([r EXCEPT !.i = @ + 1])
    /\ UNCHANGED <<ls, now, lastCall, app, pure, timer, peer>>

\* The timeout of the backoff fires: i++ and the next round.
BackoffElapses ==
    /\ retry.pc = "sleeping"
    /\ retry' = Attempt([retry EXCEPT !.i = @ + 1])
    /\ UNCHANGED <<ls, now, lastCall, app, pure, timer, peer>>

InitRetry ==
    /\ ls = Store(Absent, Absent, Absent)
    /\ now = 0
    /\ lastCall = NoCall
    /\ PageNotLoaded
    /\ pure = NoPure
    /\ timer = NoTimer
    /\ retry = NoRetry
    /\ peer = NoPeer

NextRetry ==
    \/ RetryAPICall
    \/ ApiResolves
    \/ ApiRejects
    \/ BackoffElapses

SpecRetry == InitRetry /\ [][NextRetry]_vars

\* ---------------------------------------------------------------- debounce
\* debounce(handleSearchInput, 300): the quiet period in milliseconds; the
\* clock of the model counts tenths of a second.
WaitMs == 300
Wait == WaitMs \div 100

\* What the debounced function is called with.
Queries == {"a", "b"}

\* An entry of the history: a call of the debounced function or a run of
\* the wrapped one, its arguments and its time.
Event(ev, args, at) == [ev |-> ev, args |-> args, at |-> at]

\* setTimeout(later, wait): a timer of the environment.
setTimeout(id, args, clock) == [id |-> id, due |-> clock + Wait, args |-> args]

\* Mutant: clearTimeout cancels nothing.
clearTimeout_noop(pending, id) == pending

\* clearTimeout(timeout): the timer of that id is no longer pending.
clearTimeout(pending, id) == {t \in pending : t.id # id}

\* The function debounce returns, called with args.
executedFunction(t, args) ==
    LET id == t.calls + 1
    IN  [t EXCEPT !.pending = clearTimeout(@, t.timeout) \cup {setTimeout(id, args, t.clock)},
                  !.timeout = id,
                  !.calls = id,
                  !.log = Append(@, Event("call", args, t.clock))]

\* The callback of timer tm, which the environment has taken off its list.
later(t, tm) ==
    [t EXCEPT !.pending = clearTimeout(@ \ {tm}, t.timeout),
              !.log = Append(@, Event("run", tm.args, t.clock))]

\* An input event reaches the debounced handler.
DebouncedCall ==
    /\ timer.calls < MaxCalls
    /\ timer.clock + Wait <= MaxTime
    /\ \E args \in Queries : timer' = executedFunction(timer, args)
    /\ UNCHANGED <<ls, now, lastCall, app, pure, retry, peer>>

\* The event loop serves a timer whose delay has passed: at its due time or
\* later, setTimeout promising no more than a minimum delay.
TimerFires ==
    /\ \E tm \in timer.pending :
        /\ tm.due <= timer.clock
        /\ timer' = later(timer, tm)
    /\ UNCHANGED <<ls, now, lastCall, app, pure, retry, peer>>

TimePasses ==
    /\ timer.clock < MaxTime
    /\ timer' = [timer EXCEPT !.clock = @ + 1]
    /\ UNCHANGED <<ls, now, lastCall, app, pure, retry, peer>>

InitDebounce ==
    /\ ls = Store(Absent, Absent, Absent)
    /\ now = 0
    /\ lastCall = NoCall
    /\ PageNotLoaded
    /\ pure = NoPure
    /\ timer = NoTimer
    /\ retry = NoRetry
    /\ peer = NoPeer

NextDebounce ==
    \/ DebouncedCall
    \/ TimerFires
    \/ TimePasses

\* Time passes, and the event loop serves an expired timer in the end.
SpecDebounce ==
    /\ InitDebounce
    /\ [][NextDebounce]_vars
    /\ WF_vars(TimePasses)
    /\ WF_vars(TimerFires)

\* ---------------------------------------------- filterService.js, product.js
\* A string that is not falsy: present and not empty.
Truthy(text) == text.kind = "string" /\ text.chars # <<>>
\* text || ''
OrEmpty(text) == IF Truthy(text) THEN text.chars ELSE <<>>

\* String.prototype.toLowerCase, character by character.
Lower(c) == CASE c = "A" -> "a" [] c = "B" -> "b" [] OTHER -> c
toLowerCase(chars) == [i \in DOMAIN chars |-> Lower(chars[i])]

\* String.prototype.trim: the white space at both ends is dropped.
RECURSIVE trimStart(_)
trimStart(chars) ==
    IF chars # <<>> /\ Head(chars) = " " THEN trimStart(Tail(chars)) ELSE chars
RECURSIVE trimEnd(_)
trimEnd(chars) ==
    IF chars # <<>> /\ chars[Len(chars)] = " "
    THEN trimEnd(SubSeq(chars, 1, Len(chars) - 1))
    ELSE chars
trim(chars) == trimEnd(trimStart(chars))

\* String.prototype.includes
includes(chars, searchTerm) ==
    \E i \in 1..(Len(chars) - Len(searchTerm) + 1) :
        SubSeq(chars, i, i + Len(searchTerm) - 1) = searchTerm

\* What a function over the catalog hands back: the array it returns and
\* the array it was given as the call leaves it, or a TypeError.
Gives(ret, products) == [threw |-> FALSE, ret |-> ret, products |-> products]
Fails(products) == [threw |-> TRUE, ret |-> <<>>, products |-> products]

\* The predicate of filterBySearch's filter callback.
SearchHit(product, searchTerm) ==
    \/ includes(toLowerCase(OrEmpty(product.title)), searchTerm)
    \/ includes(toLowerCase(OrEmpty(product.description)), searchTerm)
    \/ includes(toLowerCase(OrEmpty(product.category)), searchTerm)

\* Mutant: the search term is not trimmed.
filterBySearch_untrimmed(products, query) ==
    IF ~Truthy(query) \/ trim(query.chars) = <<>> THEN products
    ELSE SelectSeq(products, LAMBDA p : SearchHit(p, toLowerCase(query.chars)))

filterBySearch(products, query) ==
    IF ~Truthy(query) \/ trim(query.chars) = <<>> THEN products
    ELSE SelectSeq(products, LAMBDA p : SearchHit(p, trim(toLowerCase(query.chars))))

filterByCategory(products, category) ==
    IF ~Truthy(category) \/ category.chars = All THEN products
    ELSE SelectSeq(products, LAMBDA p : p.category = category)

\* Mutant: the category criterion is ignored.
applyFilters_searchAlone(products, filters) ==
    LET filtered == products
        searched == IF Truthy(filters.search)
                    THEN filterBySearch(filtered, filters.search)
                    ELSE filtered
    IN  Gives(searched, products)

\* Mutant: the array given is filtered in place.
applyFilters_inPlace(products, filters) ==
    LET byCategory == IF Truthy(filters.category)
                      THEN filterByCategory(products, filters.category)
                      ELSE products
        bySearch == IF Truthy(filters.search)
                    THEN filterBySearch(byCategory, filters.search)
                    ELSE byCategory
    IN  Gives(bySearch, bySearch)

\* applyFilters works on a copy, [...products].
applyFilters(products, filters) ==
    LET filtered == products
        byCategory == IF Truthy(filters.category)
                      THEN filterByCategory(filtered, filters.category)
                      ELSE filtered
        bySearch == IF Truthy(filters.search)
                    THEN filterBySearch(byCategory, filters.search)
                    ELSE byCategory
    IN  Gives(bySearch, products)

\* Product.matchesSearch: a flag, or the TypeError of toLowerCase on a field
\* that is missing.
matchesSearch(this, query) ==
    IF ~Truthy(query) \/ trim(query.chars) = <<>> THEN [threw |-> FALSE, flag |-> TRUE]
    ELSE IF \/ this.title.kind # "string"
            \/ this.description.kind # "string"
            \/ this.category.kind # "string"
         THEN [threw |-> TRUE, flag |-> FALSE]
    ELSE LET searchTerm == trim(toLowerCase(query.chars))
         IN  [threw |-> FALSE,
              flag |-> \/ includes(toLowerCase(this.title.chars), searchTerm)
                       \/ includes(toLowerCase(this.description.chars), searchTerm)
                       \/ includes(toLowerCase(this.category.chars), searchTerm)]

\* Product.isInCategory
isInCategory(this, category) ==
    IF ~Truthy(category) \/ category.chars = All THEN TRUE
    ELSE this.category = category

\* results.filter(p => p.matchesSearch(query))
FilterMatching(results, query) ==
    IF \E i \in DOMAIN results : matchesSearch(results[i], query).threw
    THEN [threw |-> TRUE, ret |-> <<>>]
    ELSE [threw |-> FALSE,
          ret |-> SelectSeq(results, LAMBDA p : matchesSearch(p, query).flag)]

\* ProductCollection.search
ProductCollection_search(products, query) ==
    IF ~Truthy(query) \/ trim(query.chars) = <<>> THEN Gives(products, products)
    ELSE LET found == FilterMatching(products, query)
         IN  IF found.threw THEN Fails(products) ELSE Gives(found.ret, products)

\* ProductCollection.applyFilters
ProductCollection_applyFilters(products, filters) ==
    LET byCategory == IF Truthy(filters.category)
                      THEN SelectSeq(products, LAMBDA p : isInCategory(p, filters.category))
                      ELSE products
        bySearch == IF Truthy(filters.search)
                    THEN FilterMatching(byCategory, filters.search)
                    ELSE [threw |-> FALSE, ret |-> byCategory]
    IN  IF bySearch.threw THEN Fails(products) ELSE Gives(bySearch.ret, products)

\* The characters the strings are made of.
Alphabet == {" ", "A", "B", "a", "b", "d", "e", "f", "i", "l", "n", "u"}

\* The order of two strings character by character under a ranking of the
\* characters, a proper prefix coming first.
LexLess(s, t, rank) ==
    \E k \in 1..(Len(s) + 1) :
        /\ k <= Len(t) + 1
        /\ \A j \in 1..(k - 1) : rank[s[j]] = rank[t[j]]
        /\ \/ k = Len(s) + 1 /\ k <= Len(t)
           \/ k <= Len(s) /\ k <= Len(t) /\ rank[s[k]] < rank[t[k]]

\* The UTF-16 code unit of a character: the order of Array.prototype.sort
\* without a comparator.
CodeUnit ==
    [c \in Alphabet |->
        CASE c = " " -> 32 [] c = "A" -> 65 [] c = "B" -> 66 [] c = "a" -> 97
          [] c = "b" -> 98 [] c = "d" -> 100 [] c = "e" -> 101 [] c = "f" -> 102
          [] c = "i" -> 105 [] c = "l" -> 108 [] c = "n" -> 110 [] c = "u" -> 117]

\* The collation of localeCompare: the letters in alphabetical order whatever
\* their case, and between two strings of the same letters the lower case first.
Letter ==
    [c \in Alphabet |->
        CASE c = " " -> 0 [] c \in {"a", "A"} -> 1 [] c \in {"b", "B"} -> 2
          [] c = "d" -> 3 [] c = "e" -> 4 [] c = "f" -> 5 [] c = "i" -> 6
          [] c = "l" -> 7 [] c = "n" -> 8 [] c = "u" -> 9]
Case == [c \in Alphabet |-> IF c \in {"A", "B"} THEN 1 ELSE 0]

\* a.localeCompare(b) < 0
localeCompare(a, b) ==
    \/ LexLess(a, b, Letter)
    \/ ~LexLess(b, a, Letter) /\ LexLess(a, b, Case)

\* Array.prototype.sort: before holds the pairs <<x, y>> the comparator puts
\* x ahead of y for; the sort is stable, so the others keep their order.
StableSort(s, before) ==
    LET pos(i) == 1 + Cardinality({j \in DOMAIN s :
                        \/ <<s[j], s[i]>> \in before
                        \/ <<s[i], s[j]>> \notin before /\ j < i})
    IN  [k \in DOMAIN s |-> s[CHOOSE i \in DOMAIN s : pos(i) = k]]

\* The pairs of elements of s that a comparison puts in order.
Pairs(s) == {<<s[i], s[j]>> : i, j \in DOMAIN s}
ByCodeUnits(s) == {p \in Pairs(s) : LexLess(p[1].chars, p[2].chars, CodeUnit)}

\* [...new Set(categories)]: the first occurrence of each value.
RECURSIVE Distinct(_)
Distinct(s) ==
    IF s = <<>> THEN <<>>
    ELSE LET front == Distinct(SubSeq(s, 1, Len(s) - 1))
             last == s[Len(s)]
         IN  IF \E i \in DOMAIN front : front[i] = last THEN front ELSE Append(front, last)

\* Mutant: no filter(Boolean).
extractCategories_keepsEmpty(products) ==
    IF products = <<>> THEN <<>>
    ELSE LET categories == [i \in DOMAIN products |-> products[i].category]
         IN  StableSort(Distinct(categories), ByCodeUnits(Distinct(categories)))

extractCategories(products) ==
    IF products = <<>> THEN <<>>
    ELSE LET categories == [i \in DOMAIN products |-> products[i].category]
             uniqueCategories == Distinct(categories)
             named == SelectSeq(uniqueCategories, Truthy)
         IN  StableSort(named, ByCodeUnits(named))

\* ProductCollection.getCategories
getCategories(products) ==
    LET categories == [i \in DOMAIN products |-> products[i].category]
        named == SelectSeq(Distinct(categories), Truthy)
    IN  StableSort(named, ByCodeUnits(named))

\* a.rating?.rate || 0
RateOrZero(product) == IF product.rating.kind = "object" THEN product.rating.rate ELSE 0

\* The string a title is compared as: a missing argument of localeCompare
\* is converted to "undefined".
Compared(title) ==
    IF title.kind = "string" THEN title.chars
    ELSE <<"u", "n", "d", "e", "f", "i", "n", "e", "d">>

\* The sorted copy for a key; any other key leaves the copy as it is.
Sorted(products, sortBy) ==
    CASE sortBy = "price-asc" ->
            StableSort(products, {p \in Pairs(products) : p[1].price < p[2].price})
      [] sortBy = "price-desc" ->
            StableSort(products, {p \in Pairs(products) : p[2].price < p[1].price})
      [] sortBy = "name-asc" ->
            StableSort(products, {p \in Pairs(products) :
                localeCompare(Compared(p[1].title), Compared(p[2].title))})
      [] sortBy = "name-desc" ->
            StableSort(products, {p \in Pairs(products) :
                localeCompare(Compared(p[2].title), Compared(p[1].title))})
      [] sortBy = "rating" ->
            StableSort(products, {p \in Pairs(products) : RateOrZero(p[2]) < RateOrZero(p[1])})
      [] OTHER -> products

\* a.title.localeCompare(...) on a product without title is a TypeError. With
\* two products or more the engine decides which of them the comparator
\* receives as a: asReceiver says that one without title is among them.
NoTitle(products, sortBy, asReceiver) ==
    /\ sortBy \in {"name-asc", "name-desc"}
    /\ Len(products) >= 2
    /\ \E i \in DOMAIN products : products[i].title.kind # "string"
    /\ asReceiver

\* Mutant: the array given is sorted in place.
sortProducts_inPlace(products, sortBy, asReceiver) ==
    IF NoTitle(products, sortBy, asReceiver) THEN Fails(products)
    ELSE Gives(Sorted(products, sortBy), Sorted(products, sortBy))

\* sortProducts sorts a copy, [...products].
sortProducts(products, sortBy, asReceiver) ==
    IF NoTitle(products, sortBy, asReceiver) THEN Fails(products)
    ELSE Gives(Sorted(products, sortBy), products)

\* ProductCollection.sort: the same switch on a copy of this.products.
ProductCollection_sort(products, sortBy, asReceiver) ==
    IF NoTitle(products, sortBy, asReceiver) THEN Fails(products)
    ELSE Gives(Sorted(products, sortBy), products)

\* A product as the catalog source sends it and as the Product constructor
\* keeps it.
Data(id, title, description, category, price, rating) ==
    [id |-> id, title |-> title, description |-> description,
     category |-> category, price |-> price, rating |-> rating]
Rating(rate) == [kind |-> "object", rate |-> rate]
NoRating == [kind |-> "undefined", rate |-> 0]

\* The products the catalogs are made of: two of them share a price, one has
\* no title and an empty category, one has no description and no category.
SampleProducts ==
    {Data(1, Text(<<"A", "b">>), Text(<<"a", " ", "b">>), Text(<<"a">>), 20, Rating(4)),
     Data(2, Text(<<"b">>), Text(<<"A">>), Text(<<"A">>), 10, Rating(2)),
     Data(3, Text(<<"a">>), Text(<<>>), Text(<<"b">>), 30, NoRating),
     Data(4, Text(<<"b", "a">>), Text(<<"b">>), Text(All), 10, Rating(4)),
     Data(5, Missing, Text(<<"a", "b">>), Text(<<>>), 40, Rating(1)),
     Data(6, Text(<<"A", " ", "b">>), Missing, Missing, 50, Rating(5))}
Catalogs == SeqsUpTo(SampleProducts, MaxLen)

SearchQueries ==
    {Missing, Text(<<>>), Text(<<" ">>), Text(<<"a">>), Text(<<"A">>),
     Text(<<" ", "a", " ">>), Text(<<"a", "B", " ">>), Text(<<"b", " ">>)}
CategoryCriteria ==
    {Missing, Text(<<>>), Text(All), Text(<<"a">>), Text(<<"A">>), Text(<<"b">>)}
SortKeys ==
    {"price-asc", "price-desc", "name-asc", "name-desc", "rating", "default", "newest"}

Applied(op, arg, out) ==
    [op |-> op, products |-> pure.products, arg |-> arg, out |-> out]

ApplyFilters ==
    /\ pure.op = "catalog"
    /\ \E search \in SearchQueries, category \in CategoryCriteria :
        pure' = Applied("applyFilters", Filters(search, category),
                        applyFilters(pure.products, Filters(search, category)))
    /\ UNCHANGED <<ls, now, lastCall, app, timer, retry, peer>>

CollectionApplyFilters ==
    /\ pure.op = "catalog"
    /\ \E search \in SearchQueries, category \in CategoryCriteria :
        pure' = Applied("ProductCollection.applyFilters", Filters(search, category),
                        ProductCollection_applyFilters(pure.products, Filters(search, category)))
    /\ UNCHANGED <<ls, now, lastCall, app, timer, retry, peer>>

FilterBySearch ==
    /\ pure.op = "catalog"
    /\ \E query \in SearchQueries :
        pure' = Applied("filterBySearch", query,
                        Gives(filterBySearch(pure.products, query), pure.products))
    /\ UNCHANGED <<ls, now, lastCall, app, timer, retry, peer>>

\* matchesSearch on the products of the catalog, one by one.
MatchesSearch ==
    /\ pure.op = "catalog"
    /\ \E query \in SearchQueries :
        pure' = Applied("matchesSearch", query,
                        [i \in DOMAIN pure.products |-> matchesSearch(pure.products[i], query)])
    /\ UNCHANGED <<ls, now, lastCall, app, timer, retry, peer>>

SortProducts ==
    /\ pure.op = "catalog"
    /\ \E sortBy \in SortKeys, asReceiver \in BOOLEAN :
        pure' = Applied("sortProducts", sortBy, sortProducts(pure.products, sortBy, asReceiver))
    /\ UNCHANGED <<ls, now, lastCall, app, timer, retry, peer>>

CollectionSort ==
    /\ pure.op = "catalog"
    /\ \E sortBy \in SortKeys, asReceiver \in BOOLEAN :
        pure' = Applied("ProductCollection.sort", sortBy,
                        ProductCollection_sort(pure.products, sortBy, asReceiver))
    /\ UNCHANGED <<ls, now, lastCall, app, timer, retry, peer>>

ExtractCategories ==
    /\ pure.op = "catalog"
    /\ pure' = Applied("extractCategories", "", Gives(extractCategories(pure.products), pure.products))
    /\ UNCHANGED <<ls, now, lastCall, app, timer, retry, peer>>

GetCategories ==
    /\ pure.op = "catalog"
    /\ pure' = Applied("getCategories", "", Gives(getCategories(pure.products), pure.products))
    /\ UNCHANGED <<ls, now, lastCall, app, timer, retry, peer>>

InitCatalog ==
    /\ pure \in {[op |-> "catalog", products |-> products] : products \in Catalogs}
    /\ Quiet

NextCatalog ==
    \/ ApplyFilters
    \/ CollectionApplyFilters
    \/ FilterBySearch
    \/ MatchesSearch
    \/ SortProducts
    \/ CollectionSort
    \/ ExtractCategories
    \/ GetCategories

SpecCatalog == InitCatalog /\ [][NextCatalog]_vars

\* --------------------------------------------------------- exportQuoteData
\* JSON.stringify(exportData, null, 2): the text of the snapshot object.
Snapshot(currency, timestamp, items, exchangeRate) ==
    [kind |-> "json",
     json |-> [currency |-> currency, timestamp |-> timestamp,
               items |-> JSONstringify(items).json, exchangeRate |-> exchangeRate]]

\* exchangeRates[currency] || 1, the rate 1 being 100 hundredths.
RateOrOne(exchangeRates, currency) ==
    IF Not(RateOf(exchangeRates, currency)) THEN Num(100)
    ELSE RateOf(exchangeRates, currency)

\* Mutant: the entry of the table is exported as it is.
exportQuoteData_rateAsIs(store, currency, exchangeRates, time) ==
    IF exchangeRates.kind \in {"null", "undefined"} THEN Throws(store)
    ELSE Returns(store, Snapshot(currency, Date(time), loadQuoteList(store),
                                 RateOf(exchangeRates, currency)))

\* exportQuoteData: reading exchangeRates[currency] of null or undefined is
\* a TypeError.
exportQuoteData(store, currency, exchangeRates, time) ==
    IF exchangeRates.kind \in {"null", "undefined"} THEN Throws(store)
    ELSE Returns(store, Snapshot(currency, Date(time), loadQuoteList(store),
                                 RateOrOne(exchangeRates, currency)))

\* exportQuoteData called with pure.c and pure.R over what the store holds.
ExportQuoteData ==
    LET out == exportQuoteData(ls, pure.c, pure.R, now) IN
    /\ pure.op = "input"
    /\ pure' = [op |-> "exportQuoteData", c |-> pure.c, R |-> pure.R]
    /\ ls' = out.store
    /\ lastCall' = Call("exportQuoteData", 0, ls, out)
    /\ UNCHANGED <<now, app, timer, retry, peer>>

\* The clock moves before the call.
ClockMoves ==
    /\ pure.op = "input"
    /\ now < MaxClock
    /\ now' = now + 1
    /\ UNCHANGED <<ls, lastCall, app, aux>>

InitExport ==
    /\ ls \in {Store(q, c, u) : q \in StoredQuoteLists,
                                c \in {Absent, JSONstringify(Str("EUR"))},
                                u \in StoredLastUpdates}
    /\ now = 0
    /\ lastCall = NoCall
    /\ PageNotLoaded
    /\ pure \in {Input(c, R) : c \in TargetCurrencies, R \in RateTables}
    /\ timer = NoTimer
    /\ retry = NoRetry
    /\ peer = NoPeer

NextExport ==
    \/ ExportQuoteData
    \/ ClockMoves

SpecExport == InitExport /\ [][NextExport]_vars

\* ------------------------------------------------------------ the handlers
\* The catalog the page was initialised with, the queries typed and the
\* category buttons and currencies chosen while it is open.
AppCatalog == <<Product(1, PriceOf(1)), Product(2, PriceOf(2))>>
AppQueries == {Text(<<>>), Text(<<"a", "B", " ">>)}
AppCategories == {Text(All), Text(<<"A">>)}
AppCurrencies == {"USD", "EUR"}
AppStoredLists == {Absent, JSONstringify(Arr(<<Product(2, PriceOf(2))>>))}

\* state when init has completed: the preferences loaded, the products built
\* from the catalog data and shown unfiltered, the rates set.
ReadyState(data, rates, store) ==
    [InitialState EXCEPT !.currentCurrency = loadCurrency(store),
                         !.quoteList = loadQuoteList(store),
                         !.allProducts = NewProducts(data),
                         !.filteredProducts = NewProducts(data),
                         !.exchangeRates = rates]

\* Mutant: the view is filtered by the search text alone.
applyFiltersAndRender_searchAlone(st) ==
    LET out == applyFilters_searchAlone(st.allProducts, st.filters)
    IN  [st EXCEPT !.filteredProducts = out.ret, !.allProducts = out.products]

\* applyFiltersAndRender: the array applyFilters returns becomes the view,
\* and state.allProducts is the array as applyFilters left it.
applyFiltersAndRender(st) ==
    LET out == applyFilters(st.allProducts, st.filters)
    IN  [st EXCEPT !.filteredProducts = out.ret, !.allProducts = out.products]

HandleCurrencyChange ==
    \E currency \in AppCurrencies, fails \in BOOLEAN :
        LET saved == saveCurrency(ls, currency, fails)
            out == Outcome(saved.store, Bool(saved.ok), FALSE, FALSE, FALSE,
                           {"currency"}, IF saved.ok THEN {"currency"} ELSE {})
        IN
        /\ pc = "ready"
        /\ state' = [state EXCEPT !.currentCurrency = Str(currency)]
        /\ ls' = saved.store
        /\ lastCall' = Call("saveCurrency", 0, ls, out)
        /\ ui' = renderUI(ui, state)
        /\ UNCHANGED <<now, pc, prodFetch, rateFetch, aux>>

HandleSearchInput ==
    \E query \in AppQueries :
        LET st == applyFiltersAndRender([state EXCEPT !.filters.search = query]) IN
        /\ pc = "ready"
        /\ state' = st
        /\ ui' = [ui EXCEPT !.grid = Grid(st.filteredProducts)]
        /\ UNCHANGED <<ls, now, lastCall, pc, prodFetch, rateFetch, aux>>

HandleCategoryClick ==
    \E category \in AppCategories :
        LET st == applyFiltersAndRender([state EXCEPT !.filters.category = category]) IN
        /\ pc = "ready"
        /\ state' = st
        /\ ui' = [ui EXCEPT !.grid = Grid(st.filteredProducts)]
        /\ UNCHANGED <<ls, now, lastCall, pc, prodFetch, rateFetch, aux>>

\* What a handler of the quote does to the page's state and to the store.
Handled(st, out) == [state |-> st, out |-> out]

\* Mutant: the product is pushed onto the page's own state.quoteList, which
\* is then saved.
handleAddToQuote_fromMemory(st, store, product, time, f1, f2) ==
    IF SomeHasId(st.quoteList.items, product.id)
    THEN Handled(st, Returns(store, st.quoteList))
    ELSE LET pushed == Append(st.quoteList.items, product)
             saved == saveQuoteList(store, pushed, time, f1, f2)
         IN  Handled([st EXCEPT !.quoteList = Arr(pushed)],
                     Outcome(saved.store, Arr(pushed), FALSE, TRUE, saved.ok,
                             saved.attempts, saved.wrote))

\* handleAddToQuote: the list addToQuote returns becomes state.quoteList;
\* when addToQuote throws, state.quoteList is not assigned.
handleAddToQuote(st, store, product, time, f1, f2) ==
    LET out == addToQuote(store, product, time, f1, f2)
    IN  Handled(IF out.threw THEN st ELSE [st EXCEPT !.quoteList = out.ret], out)

handleRemoveFromQuote(st, store, productId, time, f1, f2) ==
    LET out == removeFromQuote(store, productId, time, f1, f2)
    IN  Handled(IF out.threw THEN st ELSE [st EXCEPT !.quoteList = out.ret], out)

\* handleClearQuote once the user has confirmed.
handleClearQuote(st, store, time, f1, f2) ==
    Handled([st EXCEPT !.quoteList = Arr(<<>>)], clearQuote(store, time, f1, f2))

\* The button of a card of the grid: addToQuote is handed the product of
\* the view.
HandleAddToQuote ==
    \E i \in DOMAIN state.filteredProducts, f \in Failures :
        LET product == state.filteredProducts[i]
            done == handleAddToQuote(state, ls, product, now, f[1], f[2])
            out == done.out
        IN
        /\ pc = "ready"
        /\ ls' = out.store
        /\ lastCall' = Call("addToQuote", product.id, ls, out)
        /\ state' = done.state
        /\ ui' = IF out.threw THEN ui ELSE renderQuoteList(ui)
        /\ UNCHANGED <<now, pc, prodFetch, rateFetch, aux>>

\* handleRemoveFromQuote called for an item of the rendered quote list.
HandleRemoveFromQuote ==
    \E i \in DOMAIN state.quoteList.items, f \in Failures :
        LET productId == state.quoteList.items[i].id
            done == handleRemoveFromQuote(state, ls, productId, now, f[1], f[2])
            out == done.out
        IN
        /\ pc = "ready"
        /\ ls' = out.store
        /\ lastCall' = Call("removeFromQuote", productId, ls, out)
        /\ state' = done.state
        /\ ui' = IF out.threw THEN ui ELSE renderQuoteList(ui)
        /\ UNCHANGED <<now, pc, prodFetch, rateFetch, aux>>

HandleClearQuote ==
    \E f \in Failures :
        LET done == handleClearQuote(state, ls, now, f[1], f[2])
            out == done.out
        IN
        /\ pc = "ready"
        /\ ls' = out.store
        /\ lastCall' = Call("clearQuote", 0, ls, out)
        /\ state' = done.state
        /\ ui' = renderUI(ui, state)
        /\ UNCHANGED <<now, pc, prodFetch, rateFetch, aux>>

\* handleExportQuote: the snapshot is offered as a download; an error of
\* exportQuoteData is caught and reported.
HandleExportQuote ==
    LET out == exportQuoteData(ls, state.currentCurrency.str, state.exchangeRates, now) IN
    /\ pc = "ready"
    /\ ls' = out.store
    /\ lastCall' = Call("exportQuoteData", 0, ls, out)
    /\ UNCHANGED <<now, app, aux>>

\* handleProductClick: showProductModal asks isInQuote of the product.
HandleProductClick ==
    \E i \in DOMAIN state.filteredProducts :
        LET product == state.filteredProducts[i] IN
        /\ pc = "ready"
        /\ lastCall' = Call("isInQuote", product.id, ls, isInQuote(ls, product.id))
        /\ UNCHANGED <<ls, now, app, aux>>

\* The page when init has completed.
AppReady ==
    /\ ls \in {Store(q, Absent, Absent) : q \in AppStoredLists}
    /\ now = 0
    /\ lastCall = NoCall
    /\ pc = "ready"
    /\ prodFetch = fetchProducts(Response("ok", TRUE, JSONstringify(Arr(AppCatalog))))
    /\ rateFetch = fetchExchangeRates(
                     Response("error", FALSE, RateBody("garbage", Rates("undefined", EmptyTable))))
    /\ state = ReadyState(prodFetch.value, rateFetch.value, ls)
    /\ ui = [setupEventListeners(renderUI(InitialUi, state)) EXCEPT !.loading = FALSE]
    /\ pure = NoPure
    /\ timer = NoTimer
    /\ retry = NoRetry

InitApp == AppReady /\ peer = NoPeer

NextApp ==
    \/ HandleCurrencyChange
    \/ HandleSearchInput
    \/ HandleCategoryClick
    \/ HandleAddToQuote
    \/ HandleRemoveFromQuote
    \/ HandleClearQuote
    \/ HandleExportQuote
    \/ HandleProductClick

SpecApp == InitApp /\ [][NextApp]_vars

\* ---------------------------------------------------------- the preference
\* What else may be found under the currency key when the page loads: JSON
\* text of a string that is no supported code, or of null.
UnsupportedCurrencies == {JSONstringify(Str("XYZ")), JSONstringify(Null)}

\* Sessions of one page over whatever the currency key holds: init, the
\* currency selector, and the page reloaded.
InitPreference ==
    InitWith({Absent}, StoredCurrencies \cup UnsupportedCurrencies, {Absent})

NextPreference ==
    \/ Startup
    \/ ProductsSettle
    \/ RatesSettle
    \/ InitResolved
    \/ InitRejected
    \/ HandleCurrencyChange
    \/ Reload

SpecPreference == InitPreference /\ [][NextPreference]_vars

\* ------------------------------------------------------- two pages, one store
\* A second page of the application that has completed init on the same
\* localStorage: its own state.quoteList, loaded when it started. Each call
\* of a handler runs to completion, so the calls of the two pages interleave
\* as whole calls.
PeerReady(store) == [pc |-> "ready", quoteList |-> loadQuoteList(store)]

PeerAddToQuote ==
    \E i \in DOMAIN AppCatalog, f \in Failures :
        LET product == AppCatalog[i]
            done == handleAddToQuote(peer, ls, product, now, f[1], f[2])
        IN
        /\ peer.pc = "ready"
        /\ ls' = done.out.store
        /\ lastCall' = Call("addToQuote", product.id, ls, done.out)
        /\ peer' = done.state
        /\ UNCHANGED <<now, app, pure, timer, retry>>

PeerRemoveFromQuote ==
    \E i \in DOMAIN peer.quoteList.items, f \in Failures :
        LET productId == peer.quoteList.items[i].id
            done == handleRemoveFromQuote(peer, ls, productId, now, f[1], f[2])
        IN
        /\ peer.pc = "ready"
        /\ ls' = done.out.store
        /\ lastCall' = Call("removeFromQuote", productId, ls, done.out)
        /\ peer' = done.state
        /\ UNCHANGED <<now, app, pure, timer, retry>>

PeerClearQuote ==
    \E f \in Failures :
        LET done == handleClearQuote(peer, ls, now, f[1], f[2]) IN
        /\ peer.pc = "ready"
        /\ ls' = done.out.store
        /\ lastCall' = Call("clearQuote", 0, ls, done.out)
        /\ peer' = done.state
        /\ UNCHANGED <<now, app, pure, timer, retry>>

InitShared == AppReady /\ peer = PeerReady(ls)

NextShared ==
    \/ HandleAddToQuote
    \/ HandleRemoveFromQuote
    \/ HandleClearQuote
    \/ PeerAddToQuote
    \/ PeerRemoveFromQuote
    \/ PeerClearQuote

SpecShared == InitShared /\ [][NextShared]_vars

\* ------------------------------------------------------------- properties
\* The entries persisted under the quote-list key, when they are a list.
PersistedItems(store) ==
    IF loadQuoteList(store).kind = "array" THEN loadQuoteList(store).items ELSE <<>>

\* The ledger holds a list: nothing stored, unreadable text, or an array.
HoldsList(store) == loadQuoteList(store).kind = "array"

HasId(items, id) == \E i \in DOMAIN items : items[i].id = id

CountId(items, id) == Cardinality({i \in DOMAIN items : items[i].id = id})

\* The entry a catalog product becomes once stored and read back.
StoredEntry(id) ==
    [id |-> id, price |-> PriceOf(id), cls |-> "Object", title |-> TitleOf(id),
     description |-> DescriptionOf(id), category |-> CategoryOf(id)]

RECURSIVE WithoutId(_, _)
WithoutId(items, id) ==
    IF items = <<>> THEN <<>>
    ELSE IF Head(items).id = id THEN WithoutId(Tail(items), id)
    ELSE <<Head(items)>> \o WithoutId(Tail(items), id)

\* The same entries in the same order, whatever their class.
SameEntries(a, b) ==
    /\ Len(a) = Len(b)
    /\ \A i \in DOMAIN a : a[i].id = b[i].id /\ a[i].price = b[i].price

\* C1: the persisted quote list never holds two entries with the same id once
\* it holds none: no step of the ledger takes an id-unique list to one with a
\* repeated id, and after addToQuote(p) on a list that holds p.id the list
\* holds exactly one entry with that id.
C1_IdsStayUnique ==
    [][UniqueIds(PersistedItems(ls)) =>
         /\ UniqueIds(PersistedItems(ls'))
         /\ (lastCall'.op = "addToQuote" /\ ~lastCall'.threw /\ lastCall'.pre = ls
             /\ HasId(PersistedItems(ls), lastCall'.id)
             => CountId(PersistedItems(ls'), lastCall'.id) = 1)]_vars

\* addToQuote of an id the id-unique ledger already holds has run.
C1_Witness ==
    /\ lastCall.op = "addToQuote"
    /\ UniqueIds(PersistedItems(lastCall.pre))
    /\ HasId(PersistedItems(lastCall.pre), lastCall.id)
    /\ Len(PersistedItems(ls)) = MaxId

\* C2: addToQuote of a product whose id the persisted list already holds
\* leaves the whole store (list and timestamp) as it was, calls setItem for
\* no key, and returns the list as it was before the call.
C2_DuplicateAddIsNoOp ==
    lastCall.op = "addToQuote" /\ HasId(PersistedItems(lastCall.pre), lastCall.id)
    => /\ ~lastCall.threw
       /\ ls = lastCall.pre
       /\ lastCall.attempts = {}
       /\ lastCall.ret = loadQuoteList(lastCall.pre)

\* A duplicate add has run at a time when a write would have changed the
\* timestamp.
C2_Witness ==
    /\ lastCall.op = "addToQuote"
    /\ HasId(PersistedItems(lastCall.pre), lastCall.id)
    /\ getLastUpdate(lastCall.pre) = Date(0)
    /\ now > 0

\* C3: when the id is absent and the write of the list goes through, after
\* addToQuote(product) the persisted list is the previous one with the product
\* appended at the end, isInQuote(product.id) is true, getQuoteCount() has
\* grown by one, and the next startup loads that same list.
C3_AddIsReadBack ==
    lastCall.op = "addToQuote" /\ HoldsList(lastCall.pre)
    /\ ~HasId(PersistedItems(lastCall.pre), lastCall.id)
    /\ "quoteList" \in lastCall.wrote
    => /\ loadQuoteList(ls)
            = Arr(Append(PersistedItems(lastCall.pre), StoredEntry(lastCall.id)))
       /\ isInQuote(ls, lastCall.id).ret = Bool(TRUE)
       /\ getQuoteCount(ls).ret.kind = "number"
       /\ getQuoteCount(ls).ret.num = getQuoteCount(lastCall.pre).ret.num + 1
       /\ (pc = "awaiting" => state.quoteList = loadQuoteList(ls))
       /\ (pc = "awaiting" =>
              state.quoteList.items
                  = Append(PersistedItems(lastCall.pre), StoredEntry(lastCall.id)))

\* A product was added to a ledger that held another one, and the page has
\* started since.
C3_Witness ==
    /\ lastCall.op = "addToQuote"
    /\ ~HasId(PersistedItems(lastCall.pre), lastCall.id)
    /\ PersistedItems(lastCall.pre) # <<>>
    /\ "quoteList" \in lastCall.wrote
    /\ pc = "awaiting"

C5_ClearEmpties ==
    lastCall.op = "clearQuote"
    => /\ ~lastCall.threw
       /\ lastCall.ret.kind = "boolean"
       /\ (lastCall.ret.flag
           => /\ loadQuoteList(ls) = Arr(<<>>)
              /\ getQuoteCount(ls).ret = Val("number", <<>>, FALSE, "", 0))

\* clearQuote returned true on a ledger that held entries.
C5_Witness ==
    /\ lastCall.op = "clearQuote"
    /\ lastCall.ret = Bool(TRUE)
    /\ PersistedItems(lastCall.pre) # <<>>

\* The calls that write, and the key each writes first.
WritingOps == {"addToQuote", "removeFromQuote", "clearQuote", "saveCurrency"}
FirstKey(op) == IF op = "saveCurrency" THEN "currency" ELSE "quoteList"

\* What the same call on the same store returns when no setItem throws.
ReturnWhenWritten(call) ==
    CASE call.op = "addToQuote" ->
            addToQuote(call.pre, Product(call.id, PriceOf(call.id)), 0, FALSE, FALSE).ret
      [] call.op = "removeFromQuote" ->
            removeFromQuote(call.pre, call.id, 0, FALSE, FALSE).ret
      [] call.op = "clearQuote" -> clearQuote(call.pre, 0, FALSE, FALSE).ret
      [] OTHER -> Bool(saveCurrency(call.pre, "USD", FALSE).ok)

\* C6 as claimed: when the storage write throws, addToQuote, removeFromQuote,
\* clearQuote and saveCurrency complete without throwing and return a value
\* that tells the caller so: not the value the call returns when the write
\* goes through.
C6_Claimed ==
    lastCall.op \in WritingOps
    /\ FirstKey(lastCall.op) \in lastCall.attempts \ lastCall.wrote
    => /\ ~lastCall.threw
       /\ lastCall.ret # ReturnWhenWritten(lastCall)

\* C7 as claimed: whatever string is stored under the quote-list key (none,
\* text that is no JSON, JSON that is no array), loadQuoteList yields an
\* empty sequence, and addToQuote, removeFromQuote, isInQuote and
\* getQuoteCount complete without throwing.
C7_Claimed ==
    /\ lastCall.op = "loadQuoteList"
       => /\ lastCall.ret.kind = "array"
          /\ (lastCall.pre["quoteList"].kind # "json"
              \/ lastCall.pre["quoteList"].json.kind # "array"
              => lastCall.ret = Arr(<<>>))
    /\ lastCall.op \in {"addToQuote", "removeFromQuote", "isInQuote", "getQuoteCount"}
       => ~lastCall.threw

\* C8 as claimed: whenever saveQuoteList reports success, both the quote list
\* and the last-update timestamp have been written.
C8_Claimed ==
    lastCall.saveCalled /\ lastCall.saveOk
    => {"quoteList", "lastUpdate"} \subseteq lastCall.wrote

\* init has gone past its await on the success path: the catalog is built,
\* the page is rendered or the listeners are installed.
Proceeded ==
    \/ pc = "ready"
    \/ ui.listeners
    \/ ui.grid \in {"products", "noResults"}
    \/ state.allProducts # <<>>
    \/ state.exchangeRates # InitialState.exchangeRates

\* C9: init builds the catalog, renders and installs the listeners only once
\* fetchProducts and fetchExchangeRates have both settled; and when the
\* catalog fetch has failed, init, once over, is in the error state with no
\* product rendered and no listener installed.
C9_StartupJoin ==
    /\ Proceeded => prodFetch.status = "fulfilled" /\ rateFetch.status = "fulfilled"
    /\ prodFetch.status = "rejected"
       => /\ pc \in {"awaiting", "error"}
          /\ ~Proceeded
          /\ (pc = "error" => ui = ErrorUi /\ state.allProducts = <<>>)

\* init is over with the catalog rendered and the listeners installed.
C9_Witness ==
    /\ pc = "ready"
    /\ ui.grid = "products"
    /\ ui.listeners
    /\ rateFetch.from.net = "error"

\* The rate source failed: no answer, a status that is not 2xx, a body that
\* is no JSON, or a `rates` field that is missing or not valid.
RateSourceFailed(resp) ==
    \/ resp.net = "error"
    \/ ~resp.ok
    \/ resp.body.kind \in {"garbage", "null"}
    \/ ~validateRates(resp.body.rates)

\* C10 as claimed: fetchExchangeRates never rejects, resolves to exactly the
\* fallback table whenever the rate source failed, and a rate failure alone
\* never puts init into the error state.
C10_Claimed ==
    /\ rateFetch.status # "rejected"
    /\ (rateFetch.status = "fulfilled" /\ RateSourceFailed(rateFetch.from)
        => rateFetch.value = getFallbackRates)
    /\ (pc = "error"
        => \/ prodFetch.status = "rejected"
           \/ prodFetch.value.kind # "array"
           \/ renderUIThrows(state, ls))

\* ------------------------------------------------------------ C13 .. C15
Converted == pure.op = "convertPrice"
HasEntry(R, c) == R.kind = "object" /\ c \in DOMAIN R.table

\* C13 as stated: converting to USD returns the amount itself, whatever the
\* amount and the table are.
C13_Claimed ==
    Converted /\ pure.c = "USD"
        => ~pure.out.threw /\ pure.out.ret = pure.x

\* C13: converting to USD returns the amount itself for every table when the
\* amount is a number; an amount that is NaN or no number comes back as 0.
C13_UsdIsIdentity ==
    Converted /\ pure.c = "USD"
        => /\ ~pure.out.threw
           /\ pure.x.kind = "number" => pure.out.ret = pure.x
           /\ pure.x.kind # "number" => pure.out.ret = Num(0)

\* An amount converted to USD under a table whose USD rate is not 1.
C13_Witness ==
    /\ Converted
    /\ pure.c = "USD"
    /\ pure.x = Num(200)
    /\ HasEntry(pure.R, "USD")
    /\ pure.R.table["USD"] = 50
    /\ pure.out = Value(Num(200))

\* C14 as stated: a currency without an entry leaves the amount unconverted
\* and throws nothing; a currency other than USD with an entry multiplies
\* the amount by its rate.
C14_Claimed ==
    Converted /\ pure.R.kind = "object"
        => /\ ~HasEntry(pure.R, pure.c)
                => ~pure.out.threw /\ pure.out.ret = pure.x
           /\ HasEntry(pure.R, pure.c) /\ pure.c # "USD" /\ pure.x.kind = "number"
                => pure.out.ret = Num((pure.x.num * pure.R.table[pure.c]) \div 100)

\* C14: for an amount that is a number, a currency whose entry is missing or
\* zero leaves the amount unconverted and throws nothing, and a currency
\* other than USD with a non-zero entry multiplies the amount by its rate.
C14_MissingRateFallsBack ==
    Converted /\ pure.R.kind = "object" /\ pure.x.kind = "number"
        => /\ ~pure.out.threw
           /\ ~HasEntry(pure.R, pure.c) => pure.out.ret = pure.x
           /\ HasEntry(pure.R, pure.c) /\ pure.R.table[pure.c] = 0
                => pure.out.ret = pure.x
           /\ HasEntry(pure.R, pure.c) /\ pure.c # "USD" /\ pure.R.table[pure.c] # 0
                => pure.out.ret = Num((pure.x.num * pure.R.table[pure.c]) \div 100)

\* An amount converted to a currency the table does not hold.
C14_Witness ==
    /\ Converted
    /\ pure.c = "GBP"
    /\ pure.R.kind = "object"
    /\ DOMAIN pure.R.table = {"USD", "EUR"}
    /\ pure.x = Num(200)
    /\ pure.out = Value(Num(200))

\* The sum of the conversions of the first n prices.
RECURSIVE SumOfConversions(_, _, _, _)
SumOfConversions(s, n, c, R) ==
    IF n = 0 THEN 0
    ELSE SumOfConversions(s, n - 1, c, R) + convertPrice(s[n].price, c, R).ret.num

\* C15: the total of no items is 0, and the total of a non-empty sequence is
\* the sum of the conversions of its items' prices.
C15_TotalIsSum ==
    pure.op = "calculateTotal" /\ pure.items.kind = "array" /\ pure.R.kind = "object"
        => /\ ~pure.out.threw
           /\ Len(pure.items.items) = 0 => pure.out.ret = Num(0)
           /\ Len(pure.items.items) > 0
                => pure.out.ret = Num(SumOfConversions(pure.items.items,
                                        Len(pure.items.items), pure.c, pure.R))

\* Two priced items totalled in a currency the table converts.
C15_Witness ==
    /\ pure.op = "calculateTotal"
    /\ pure.c = "EUR"
    /\ HasEntry(pure.R, "EUR")
    /\ pure.R.table["EUR"] = 50
    /\ pure.items = Arr(<<[price |-> Num(200)], [price |-> Num(100)]>>)
    /\ pure.out = Value(Num(150))

\* -------------------------------------------------------------------- C12
Min(a, b) == IF a < b THEN a ELSE b

\* C12: a run of retryAPICall invokes apiFn at most maxRetries times (3 when
\* none is given); it returns the result of the first invocation that
\* succeeds, having invoked apiFn once per earlier failure and once more; it
\* sets a timeout of 2^i seconds after the failure of round i, except after
\* the last round, and invokes apiFn again only after that timeout; and after
\* maxRetries failures it has thrown the error of the last attempt.
C12_RetryContract ==
    retry.pc # "none"
        => /\ retry.maxRetries = (IF retry.arg.kind = "undefined" THEN 3 ELSE retry.arg.num)
           /\ retry.invocations <= retry.maxRetries
           /\ retry.pc = "returned"
                => /\ retry.invocations = Len(retry.errors) + 1
                   /\ ~retry.out.threw
                   /\ retry.out.ret \in ApiResults
           /\ Len(retry.waits) = Min(Len(retry.errors), retry.maxRetries - 1)
                \/ retry.maxRetries = 0
           /\ \A k \in DOMAIN retry.waits : retry.waits[k] = (2 ^ (k - 1)) * 1000
           /\ retry.invocations <= Len(retry.waits) + 1
           /\ retry.pc = "sleeping" => retry.invocations = Len(retry.waits)
           /\ Len(retry.errors) = retry.maxRetries <=> retry.pc = "threw"
           /\ retry.pc = "threw" /\ retry.maxRetries > 0
                => /\ retry.out.threw
                   /\ retry.out.ret = retry.errors[retry.maxRetries]

\* Three failures under the default: two timeouts, then the last error thrown.
C12_Witness ==
    /\ retry.pc = "threw"
    /\ retry.arg = Undefined
    /\ retry.invocations = 3
    /\ retry.errors = <<Str("e1"), Str("e1"), Str("e2")>>
    /\ retry.waits = <<1000, 2000>>
    /\ retry.out = [threw |-> TRUE, ret |-> Str("e2")]

\* -------------------------------------------------------------------- C11
IsCall(j) == timer.log[j].ev = "call"
IsRun(j) == timer.log[j].ev = "run"

\* Every run follows, with nothing in between, a call made at least the
\* quiet period before it, and has that call's arguments.
RunsAreTrailing ==
    \A j \in DOMAIN timer.log :
        IsRun(j) => /\ j > 1
                    /\ IsCall(j - 1)
                    /\ timer.log[j].args = timer.log[j - 1].args
                    /\ timer.log[j].at >= timer.log[j - 1].at + 3

\* Two calls with no run between them are less than the quiet period apart.
EveryBurstHasRun ==
    \A j \in DOMAIN timer.log :
        j > 1 /\ IsCall(j) /\ IsCall(j - 1)
            => timer.log[j].at < timer.log[j - 1].at + 3

\* C11 as stated: every burst of calls, each less than the quiet period
\* after the one before, is followed by exactly one run of the wrapped
\* function, after the quiet period and with the last call's arguments.
C11_Claimed == RunsAreTrailing /\ EveryBurstHasRun

\* C11: the wrapped function runs at most once per burst, never before the
\* quiet period has passed since the burst's last call and with that call's
\* arguments (a call that arrives before the expired timeout was served
\* cancels it), and after every call a run eventually happens.
C11_Debounce ==
    /\ []RunsAreTrailing
    /\ (timer.log # <<>> /\ IsCall(Len(timer.log)))
            ~> (timer.log # <<>> /\ IsRun(Len(timer.log)))

\* A burst of two calls one tick apart, run once with the second query.
C11_Witness ==
    /\ Len(timer.log) = 3
    /\ timer.log[1] = Event("call", "a", 0)
    /\ timer.log[2] = Event("call", "b", 1)
    /\ timer.log[3] = Event("run", "b", 4)
    /\ timer.pending = {}

\* ------------------------------------------------------------ C16 .. C19
\* The characters of a field, none when the field is missing.
Chars(field) == IF field.kind = "string" THEN field.chars ELSE <<>>
LowerCased(s) ==
    [i \in DOMAIN s |-> IF s[i] = "A" THEN "a" ELSE IF s[i] = "B" THEN "b" ELSE s[i]]
\* s without the white space before its first and after its last other character.
Trimmed(s) ==
    LET inked == {i \in DOMAIN s : s[i] # " "}
    IN  IF inked = {} THEN <<>>
        ELSE SubSeq(s, CHOOSE i \in inked : \A j \in inked : i <= j,
                       CHOOSE i \in inked : \A j \in inked : j <= i)
\* t is a substring of s.
Occurs(t, s) == \E a \in 0..Len(s) : \E b \in a..Len(s) : SubSeq(s, a + 1, b) = t

IsBlank(q) == \A i \in DOMAIN Chars(q) : Chars(q)[i] = " "
HasTexts(p) ==
    p.title.kind = "string" /\ p.description.kind = "string" /\ p.category.kind = "string"

\* The search predicate: the trimmed, lower-cased query occurs in the
\* lower-cased title, description or category; a blank query accepts.
Accepts(p, q) ==
    \/ IsBlank(q)
    \/ Occurs(Trimmed(LowerCased(Chars(q))), LowerCased(Chars(p.title)))
    \/ Occurs(Trimmed(LowerCased(Chars(q))), LowerCased(Chars(p.description)))
    \/ Occurs(Trimmed(LowerCased(Chars(q))), LowerCased(Chars(p.category)))

\* The category predicate: an empty criterion and "all" let everything
\* through, any other asks for the very same string.
InCategory(p, c) ==
    \/ Chars(c) = <<>>
    \/ Chars(c) = <<"a", "l", "l">>
    \/ p.category.kind = "string" /\ p.category.chars = Chars(c)

Selected(products, filters) ==
    SelectSeq(products, LAMBDA p : InCategory(p, filters.category) /\ Accepts(p, filters.search))

\* C16: applyFilters returns exactly the products that satisfy the category
\* predicate and the search predicate, in their original order, and with
\* empty criteria the whole catalog in its order; ProductCollection.applyFilters
\* does the same on products whose title, description and category are present.
C16_FiltersSelect ==
    /\ pure.op = "applyFilters"
        => /\ ~pure.out.threw
           /\ pure.out.ret = Selected(pure.products, pure.arg)
           /\ Chars(pure.arg.search) = <<>> /\ Chars(pure.arg.category) = <<>>
                => pure.out.ret = pure.products
    /\ pure.op = "ProductCollection.applyFilters"
            /\ (\A i \in DOMAIN pure.products : HasTexts(pure.products[i]))
        => /\ ~pure.out.threw
           /\ pure.out.ret = Selected(pure.products, pure.arg)
           /\ Chars(pure.arg.search) = <<>> /\ Chars(pure.arg.category) = <<>>
                => pure.out.ret = pure.products

\* Category "a" and query "b " applied to a product of category "a" whose
\* title holds a b and to a product of category "A".
C16_Witness ==
    /\ pure.op = "applyFilters"
    /\ Len(pure.products) = 2
    /\ pure.products[1].id = 1
    /\ pure.products[2].id = 2
    /\ pure.arg = Filters(Text(<<"b", " ">>), Text(<<"a">>))
    /\ pure.out.ret = <<pure.products[1]>>

\* C17: filterBySearch keeps a product iff the trimmed, lower-cased query is
\* a substring of its lower-cased title, description or category (a missing
\* field counting as empty), Product.matchesSearch says the same of a product
\* whose three fields are present, and a query that is empty or only white
\* space accepts every product.
C17_SearchAccepts ==
    /\ pure.op = "filterBySearch"
        => /\ pure.out.ret = SelectSeq(pure.products, LAMBDA p : Accepts(p, pure.arg))
           /\ IsBlank(pure.arg) => pure.out.ret = pure.products
    /\ pure.op = "matchesSearch"
        => \A i \in DOMAIN pure.products :
            /\ HasTexts(pure.products[i])
                => /\ ~pure.out[i].threw
                   /\ pure.out[i].flag = Accepts(pure.products[i], pure.arg)
            /\ IsBlank(pure.arg) => ~pure.out[i].threw /\ pure.out[i].flag

\* The query "aB " kept the product titled "Ab" and dropped the one that
\* holds no "ab".
C17_Witness ==
    /\ pure.op = "filterBySearch"
    /\ pure.arg = Text(<<"a", "B", " ">>)
    /\ Len(pure.products) = 2
    /\ pure.products[1].id = 2
    /\ pure.products[2].title = Text(<<"A", "b">>)
    /\ pure.out.ret = <<pure.products[2]>>

Count(s, x) == Cardinality({i \in DOMAIN s : s[i] = x})
IsPermutation(s, t) ==
    /\ Len(s) = Len(t)
    /\ \A i \in DOMAIN t : Count(s, t[i]) = Count(t, t[i])
Reversed(s) == [i \in DOMAIN s |-> s[Len(s) + 1 - i]]
DistinctPrices(s) == \A i, j \in DOMAIN s : s[i].price = s[j].price => i = j

Ord(c) == CHOOSE n \in 1..6 : <<" ", "A", "B", "a", "b", "l">>[n] = c
Precedes(s, t) ==
    \/ Len(s) < Len(t) /\ s = SubSeq(t, 1, Len(s))
    \/ \E k \in DOMAIN s \cap DOMAIN t :
        /\ SubSeq(s, 1, k - 1) = SubSeq(t, 1, k - 1)
        /\ Ord(s[k]) < Ord(t[k])

\* C19: extractCategories and getCategories return every category of the
\* catalog that is a non-empty string, each once, in ascending order of its
\* code units, and nothing that is empty or missing.
C19_CategoriesSorted ==
    pure.op \in {"extractCategories", "getCategories"}
        => LET r == pure.out.ret
           IN  /\ \A i \in DOMAIN r : r[i].kind = "string" /\ r[i].chars # <<>>
               /\ {r[i] : i \in DOMAIN r}
                    = {pure.products[i].category : i \in DOMAIN pure.products}
                        \ {Missing, Text(<<>>)}
               /\ \A i, j \in DOMAIN r : i < j => Precedes(r[i].chars, r[j].chars)

\* Categories "a" and "A": the upper case comes first.
C19_Witness ==
    /\ pure.op = "extractCategories"
    /\ Len(pure.products) = 2
    /\ pure.products[1].category = Text(<<"a">>)
    /\ pure.products[2].category = Text(<<"A">>)
    /\ pure.out.ret = <<Text(<<"A">>), Text(<<"a">>)>>

\* -------------------------------------------------------------------- C20
\* C20: once init has completed no handler changes state.allProducts: the
\* products of the catalog, their order and every field of each of them stay
\* what init made of the catalog data.
C20_CatalogIsImmutable ==
    [][pc = "ready" => state'.allProducts = state.allProducts]_vars

\* A search and a product added to the quote have left one card in the view
\* and the whole catalog in state.allProducts.
C20_Witness ==
    /\ pc = "ready"
    /\ Len(state.filteredProducts) = 1
    /\ state.filters.search = Text(<<"a", "B", " ">>)
    /\ state.quoteList.kind = "array"
    /\ Len(state.quoteList.items) = 2
    /\ Len(state.allProducts) = 2
    /\ \A i \in 1..2 :
        state.allProducts[i]
            = [id |-> i, price |-> 10 * i, cls |-> "Product", title |-> TitleOf(i),
               description |-> DescriptionOf(i), category |-> CategoryOf(i)]

\* -------------------------------------------------------------------- C21
SupportedCodes == {Str(c) : c \in Currencies}

\* C21 as claimed: the currency preference of a loaded page is one of the
\* five supported codes; with nothing stored under the currency key
\* loadCurrency returns USD; and once handleCurrencyChange has selected a
\* code, that code is what loadCurrency returns from then on, so the next
\* startup reads it (reloading the page leaves localStorage as it is).
C21_Claimed ==
    /\ pc # "idle" => state.currentCurrency \in SupportedCodes
    /\ ls["currency"] = Absent => loadCurrency(ls) = Str("USD")
    /\ (pc = "ready" /\ lastCall.op = "saveCurrency")
           => loadCurrency(ls) = state.currentCurrency

\* -------------------------------------------------------------------- C22
\* The latest call was exportQuoteData, and the object its text holds.
Exported == lastCall.op = "exportQuoteData"
ExportedItems == JSONparse([kind |-> "json", json |-> lastCall.ret.json.items])
HasRate(R, c) == R.kind = "object" /\ c \in DOMAIN R.table

\* C22 as claimed: exportQuoteData(c, R) produces a snapshot whose items are
\* the persisted ledger contents in order, whose currency is c and whose
\* exchangeRate is R[c], or 1 when R has no entry for c; the store is left
\* as the call found it. Stated for R a rate table.
C22_Claimed ==
    (Exported /\ pure.R.kind = "object") =>
        /\ ~lastCall.threw
        /\ ExportedItems = loadQuoteList(lastCall.pre)
        /\ lastCall.ret.json.currency = pure.c
        /\ lastCall.ret.json.exchangeRate =
               (IF HasRate(pure.R, pure.c) THEN Num(pure.R.table[pure.c]) ELSE Num(100))
        /\ ls = lastCall.pre

\* C22: exportQuoteData(c, R) never changes the store (ledger, timestamp and
\* currency preference). Given a rate table R it returns a snapshot whose
\* items are the persisted ledger contents in order, whose currency is c,
\* whose timestamp is the time of the call, and whose exchangeRate is R[c]
\* when R has a non-zero entry for c and 1 when the entry is missing or 0;
\* given null for R it throws.
C22_ExportSnapshot ==
    Exported =>
        /\ ls = lastCall.pre
        /\ lastCall.threw = (pure.R.kind = "null")
        /\ ~lastCall.threw =>
              /\ ExportedItems = loadQuoteList(lastCall.pre)
              /\ lastCall.ret.json.currency = pure.c
              /\ lastCall.ret.json.timestamp = Date(now)
              /\ lastCall.ret.json.exchangeRate =
                     (IF HasRate(pure.R, pure.c) /\ pure.R.table[pure.c] # 0
                      THEN Num(pure.R.table[pure.c])
                      ELSE Num(100))

\* A ledger of two entries exported in EUR with a table whose EUR rate is 0:
\* both entries in order, and the rate 1.
C22_Witness ==
    /\ Exported
    /\ ~lastCall.threw
    /\ pure.c = "EUR"
    /\ HasRate(pure.R, "EUR")
    /\ pure.R.table["EUR"] = 0
    /\ lastCall.ret.json.exchangeRate = Num(100)
    /\ Len(ExportedItems.items) = 2
    /\ ExportedItems.items[1].id = 2
    /\ ExportedItems.items[2].id = 1
    /\ ls = lastCall.pre

\* -------------------------------------------------------------------- C23
\* C23 as claimed: whenever the page is ready, after init and after any
\* sequence of intents and re-renders, the remove button of every entry of
\* the rendered quote list carries a click listener (calling
\* handleRemoveFromQuote with the entry's id), and every category button,
\* the "All Products" button included, carries one (calling
\* handleCategoryClick with its category).
C23_Claimed ==
    pc = "ready" =>
        /\ (state.quoteList.kind = "array" /\ state.quoteList.items # <<>>)
               => ui.removeBtn >= 1
        /\ ui.allBtn >= 1
        /\ ui.categoryBtn >= 1

\* -------------------------------------------------------------------- C24
\* The ids of a list of entries, in order.
IdsOf(items) == [i \in DOMAIN items |-> items[i].id]

\* C24 as claimed: whenever the page is ready (after init and after each
\* handler has completed), state.quoteList holds the same ids in the same
\* order as loadQuoteList() returns, write failures included.
C24_Claimed ==
    pc = "ready" => IdsOf(state.quoteList.items) = IdsOf(loadQuoteList(ls).items)

\* -------------------------------------------------------------------- C25
\* C25: whenever the page is ready (after init and after every handler has
\* completed) the view state.filteredProducts is what applyFilters returns
\* for state.allProducts and state.filters; the view is thus a function of
\* the catalog and the criteria alone, and two runs that agree on both agree
\* on the filtered order.
C25_ViewIsFiltered ==
    pc = "ready" =>
        state.filteredProducts = applyFilters(state.allProducts, state.filters).ret

\* The search text and the category each hide one product, the view is
\* empty, and the quote has since been cleared.
C25_Witness ==
    /\ pc = "ready"
    /\ state.filters = Filters(Text(<<"a", "B", " ">>), Text(<<"A">>))
    /\ Len(state.allProducts) = 2
    /\ state.filteredProducts = <<>>
    /\ lastCall.op = "clearQuote"

\* -------------------------------------------------------------------- C26
\* The ids of the entries the store holds.
PersistedIds(store) ==
    {loadQuoteList(store).items[i].id : i \in DOMAIN loadQuoteList(store).items}

\* The step is a call that removes id, or one that clears the ledger.
RemovesOrClears(id) ==
    \/ lastCall'.op = "removeFromQuote" /\ lastCall'.id = id
    \/ lastCall'.op = "clearQuote"

\* C26: with two pages calling the quote handlers on one store, each call
\* running to completion, an add whose write went through leaves its entry
\* in the persisted ledger, and an entry of the persisted ledger stays there
\* through every step that neither removes its id nor clears the ledger,
\* whichever page takes the step: an add or a remove of another id never
\* drops it.
C26_NoLostUpdate ==
    [][/\ \A id \in Ids :
            (id \in PersistedIds(ls) /\ ~RemovesOrClears(id))
                => id \in PersistedIds(ls')
       /\ (ls' # ls /\ lastCall'.op = "addToQuote")
                => lastCall'.id \in PersistedIds(ls')]_vars

\* The first page added product 1 to an empty ledger, then the second page
\* added product 2: the ledger holds both, while the first page's own list
\* still holds product 1 alone.
C26_Witness ==
    /\ peer.pc = "ready"
    /\ IdsOf(loadQuoteList(ls).items) = <<1, 2>>
    /\ IdsOf(state.quoteList.items) = <<1>>
    /\ IdsOf(peer.quoteList.items) = <<1, 2>>
    /\ lastCall.op = "addToQuote"
    /\ lastCall.id = 2

\* -------------------------------------------------------------------- C27
\* C27 as claimed: for every catalog and every criteria, products with a
\* missing title, description or category included,
\* ProductCollection.applyFilters(criteria) does not throw and returns what
\* filterService's applyFilters(products, criteria) returns, which does not
\* throw either.
C27_Claimed ==
    /\ pure.op = "ProductCollection.applyFilters" =>
          /\ ~pure.out.threw
          /\ ~applyFilters(pure.products, pure.arg).threw
          /\ pure.out.ret = applyFilters(pure.products, pure.arg).ret
    /\ pure.op = "applyFilters" =>
          /\ ~pure.out.threw
          /\ ~ProductCollection_applyFilters(pure.products, pure.arg).threw
          /\ pure.out.ret = ProductCollection_applyFilters(pure.products, pure.arg).ret

====
